---- MODULE Spec2Model ----
(***************************************************************************)
(* FlexHeader: the settings store (src/utils/settings.ts, storage.ts) and  *)
(* the background rule compiler (src/background/background.ts).            *)
(***************************************************************************)
EXTENDS Integers, Sequences, FiniteSets, TLC

VARIABLES
    storage,        \* browser.storage: [local, sync], each tier [meta, pages, v2, misc]
    dynamicRules,   \* the rules installed in declarativeNetRequest
    pc,             \* getAndApplyHeaderRules: position of each run
    meta,           \* getAndApplyHeaderRules: const meta (a list of 0 or 1)
    oldRuleIds,     \* getAndApplyHeaderRules: const oldRuleIds
    pages,          \* getAndApplyHeaderRules: let pages
    headers,        \* getAndApplyHeaderRules: let headers (the batch)
    rulesAtStart,   \* dynamicRules as they were when the run was started
    caught,         \* errors that reached the catch block of a run
    unhandled,      \* promise rejections nobody awaits or catches
    pagesData,      \* useFlexHeaderSettings: the in-memory graph (settings.ts 95)
    lastOp,         \* the store operation that produced pagesData
    hasInitialized, \* settings.ts 100
    isSavingRef,    \* settings.ts 101
    lastError,      \* settings.ts 94: [type, time]
    prevPagesDataRef, \* settings.ts 378: a list of 0 (null) or 1 graph
    alert,          \* the text of the last alertContext.setAlert
    effects,        \* the useEffect callbacks due after the last state change
    task,           \* the asynchronous calls of the store: load, edit, sync
    saved,          \* the graph of the last save to the local tier that ran
                    \* to its end with no save to that tier begun since
    now,            \* Date.now()
    failures,       \* the storage calls that have been rejected so far
    mounts,         \* the times the popup has been opened
    probes          \* the calls of filterIsValid in flight, each with the
                    \* arguments and the pagesData that its callback closes over

runVars == <<pc, meta, oldRuleIds, pages, headers, rulesAtStart, caught, unhandled>>
graphVars == <<pagesData, lastOp, effects>>
hookVars == <<hasInitialized, isSavingRef, lastError, prevPagesDataRef, alert, task, saved>>
envVars == <<now, failures, mounts, probes>>
storeVars == <<graphVars, hookVars, envVars>>
vars == <<storage, dynamicRules, runVars, storeVars>>

(***************************************************************************)
(* Bounds of the model.                                                    *)
(***************************************************************************)
MaxStoredPages == 2     \* pages of a stored graph
MaxHeaders == 2         \* headers of a stored graph, all pages together
MaxFilters == 2         \* filters of a page
RuleIdSpace == 3        \* rule ids are drawn from 0..RuleIdSpace-1

(***************************************************************************)
(* Data model (settings.ts 12-48).                                         *)
(***************************************************************************)
Unset == "undefined"

Range(s) == {s[i] : i \in DOMAIN s}

SeqsUpTo(S, n) == UNION {[1..k -> S] : k \in 0..n}

HeaderSetting(id, name, value, enabled, type) ==
    [id |-> id, headerName |-> name, headerValue |-> value,
     headerEnabled |-> enabled, headerType |-> type]

HeaderFilter(id, enabled, valid, type, value) ==
    [id |-> id, enabled |-> enabled, valid |-> valid, type |-> type, value |-> value]

Page(id, name, enabled, keepEnabled, filters, hdrs) ==
    [id |-> id, name |-> name, enabled |-> enabled, keepEnabled |-> keepEnabled,
     filters |-> filters, headers |-> hdrs]

PagesData(ps, selectedPage) == [pages |-> ps, selectedPage |-> selectedPage]

SettingsV3Meta(selectedPage, pageCount) ==
    [version |-> 3, selectedPage |-> selectedPage, pageCount |-> pageCount]

defaultPage ==
    Page(0, "Default", TRUE, FALSE, <<>>,
         <<HeaderSetting("default-1", "X-Frame-Options",
                         "ALLOW-FROM https://www.youtube.com/", TRUE, "request")>>)

(***************************************************************************)
(* A storage tier: the keys settings_v3_meta (meta), page_<i> (pages),     *)
(* settings_v2 (v2) and the names of the other keys it holds (misc).       *)
(***************************************************************************)
NoPages == [i \in {} |-> defaultPage]

EmptyTier == [meta |-> <<>>, pages |-> NoPages, v2 |-> <<>>, misc |-> {}]

PageShards(ps) == [i \in 0..(Len(ps) - 1) |-> ps[i + 1]]

\* the tier holding graph g in the sharded v3 format
ShardedTier(g) ==
    [meta |-> <<SettingsV3Meta(g.selectedPage, Len(g.pages))>>,
     pages |-> PageShards(g.pages), v2 |-> <<>>, misc |-> {}]

\* the tier holding graph g as one settings_v2 blob
LegacyTier(g) == [meta |-> <<>>, pages |-> NoPages, v2 |-> <<g>>, misc |-> {}]

(***************************************************************************)
(* Rule compiler (background.ts 11-133).                                   *)
(***************************************************************************)
Runs == {"r1", "r2"}

RuleIds == 0..(RuleIdSpace - 1)

\* background.ts 23-29: the outcomes of one call, any id that is not an old one
getUniqueRuleID(old) == RuleIds \ old

\* composeFilter without the test of filter.valid
RECURSIVE composeFilterIgnoringValid(_, _)
composeFilterIgnoringValid(filters, acc) ==
    IF filters = <<>> THEN acc
    ELSE LET f == Head(filters)
             piece == IF f.type = "include" THEN f.value ELSE "~" \o f.value
             next == IF f.enabled
                     THEN (IF acc = "" THEN piece ELSE acc \o "|" \o piece)
                     ELSE acc
         IN composeFilterIgnoringValid(Tail(filters), next)

\* background.ts 67-87: the forEach over page.filters, acc is regexFilter so far
RECURSIVE composeFilter(_, _)
composeFilter(filters, acc) ==
    IF filters = <<>> THEN acc
    ELSE LET f == Head(filters)
             piece == IF f.type = "include" THEN f.value ELSE "~" \o f.value
             next == IF f.enabled /\ f.valid
                     THEN (IF acc = "" THEN piece ELSE acc \o "|" \o piece)
                     ELSE acc
         IN composeFilter(Tail(filters), next)

\* background.ts 117: regexFilter || "|http*"
regexFilterOf(page) ==
    LET regexFilter == composeFilter(page.filters, "")
    IN IF regexFilter = "" THEN "|http*" ELSE regexFilter

\* pageIsActive without the pinned pages
pageIsActiveWhenSelected(page) == page.enabled

\* background.ts 62: the pages whose headers are compiled
pageIsActive(page) == page.enabled \/ page.keepEnabled

\* headerIsEmitted without the test of header.headerEnabled
headerIsEmittedWhenDisabled(header) == header.headerName # ""

\* background.ts 65: the headers that produce a rule
headerIsEmitted(header) == header.headerEnabled /\ header.headerName # ""

\* ruleFor that puts every header entry into requestHeaders
ruleForRequest(page, header, id) ==
    [id |-> id, priority |-> 1,
     requestHeaders |-> <<[header |-> header.headerName, operation |-> "set",
                           value |-> header.headerValue]>>,
     responseHeaders |-> <<>>,
     regexFilter |-> regexFilterOf(page)]

\* background.ts 90-120: the rule pushed for one header of one page
ruleFor(page, header, id) ==
    LET hType == IF header.headerType = Unset THEN "request" ELSE header.headerType
        entry == [header |-> header.headerName, operation |-> "set",
                  value |-> header.headerValue]
    IN [id |-> id, priority |-> 1,
        requestHeaders |-> IF hType = "request" THEN <<entry>> ELSE <<>>,
        responseHeaders |-> IF hType = "request" THEN <<>> ELSE <<entry>>,
        regexFilter |-> regexFilterOf(page)]

\* background.ts 61-124: the (page, header) pairs that produce a rule, in order
RECURSIVE emitted(_)
emitted(ps) ==
    IF ps = <<>> THEN <<>>
    ELSE LET page == Head(ps)
             own == IF pageIsActive(page)
                    THEN [k \in 1..Len(SelectSeq(page.headers, headerIsEmitted)) |->
                            [page |-> page,
                             header |-> SelectSeq(page.headers, headerIsEmitted)[k]]]
                    ELSE <<>>
         IN own \o emitted(Tail(ps))

\* background.ts 61-124: the batch, ids[k] being the k-th getUniqueRuleID() result
compile(ps, ids) ==
    [k \in 1..Len(emitted(ps)) |->
        ruleFor(emitted(ps)[k].page, emitted(ps)[k].header, ids[k])]

(***************************************************************************)
(* One run of getAndApplyHeaderRules (background.ts 11-133).  A run is     *)
(* started by the storage.local.onChanged listener (198-204) or at start-  *)
(* up (210); it suspends at every await.                                   *)
(***************************************************************************)
RunSettled(r) == pc[r] \in {"idle", "applied", "rejected", "caught"}

\* background.ts 130-132: catch (error) { console.error(...) }
catchError(r) ==
    /\ pc' = [pc EXCEPT ![r] = "caught"]
    /\ caught' = [caught EXCEPT ![r] = TRUE]

\* background.ts 11-31: the locals of a run that starts
runStarts(r) ==
    /\ RunSettled(r)
    /\ pc' = [pc EXCEPT ![r] = "getMeta"]
    /\ meta' = [meta EXCEPT ![r] = <<>>]
    /\ oldRuleIds' = [oldRuleIds EXCEPT ![r] = {}]
    /\ pages' = [pages EXCEPT ![r] = <<>>]
    /\ headers' = [headers EXCEPT ![r] = <<>>]
    /\ rulesAtStart' = [rulesAtStart EXCEPT ![r] = dynamicRules]
    /\ caught' = [caught EXCEPT ![r] = FALSE]
    /\ unhandled' = [unhandled EXCEPT ![r] = FALSE]

\* background.ts 11, 202, 210: a run starts
getAndApplyHeaderRules(r) ==
    /\ runStarts(r)
    /\ UNCHANGED <<storage, dynamicRules, storeVars>>

\* background.ts 14-15: await browser.storage.local.get(SETTINGS_V3_META_KEY)
getMeta(r) ==
    /\ pc[r] = "getMeta"
    /\ \E ok \in BOOLEAN :
        IF ok
        THEN /\ meta' = [meta EXCEPT ![r] = storage.local.meta]
             /\ pc' = [pc EXCEPT ![r] = "getRules"]
             /\ UNCHANGED caught
        ELSE catchError(r) /\ UNCHANGED meta
    /\ UNCHANGED <<storage, dynamicRules, oldRuleIds, pages, headers,
                   rulesAtStart, unhandled>>
    /\ UNCHANGED storeVars

\* background.ts 19-20: await getDynamicRules(); oldRuleIds
getDynamicRules(r) ==
    /\ pc[r] = "getRules"
    /\ \E ok \in BOOLEAN :
        IF ok
        THEN /\ oldRuleIds' = [oldRuleIds EXCEPT ![r] = {rule.id : rule \in dynamicRules}]
             /\ pc' = [pc EXCEPT ![r] = "getPages"]
             /\ UNCHANGED caught
        ELSE catchError(r) /\ UNCHANGED oldRuleIds
    /\ UNCHANGED <<storage, dynamicRules, meta, pages, headers,
                   rulesAtStart, unhandled>>
    /\ UNCHANGED storeVars

\* background.ts 36-46: the shards page_0..page_{pageCount-1} that exist, in order
RECURSIVE shardsFrom(_, _, _)
shardsFrom(tier, i, pageCount) ==
    IF i >= pageCount THEN <<>>
    ELSE (IF i \in DOMAIN tier.pages THEN <<tier.pages[i]>> ELSE <<>>)
         \o shardsFrom(tier, i + 1, pageCount)

\* background.ts 31-55: the pages a run reads, from the shards or the v2 blob
readPages(tier, m) ==
    IF m # <<>> THEN shardsFrom(tier, 0, m[1].pageCount)
    ELSE IF tier.v2 # <<>> THEN tier.v2[1].pages
    ELSE <<>>

\* background.ts 33-129: the page reads resolve, the batch is compiled and
\* updateDynamicRules is called without being awaited; the run returns
compileAndSubmit(r) ==
    /\ pc[r] = "getPages"
    /\ \E ok \in BOOLEAN :
        IF ok
        THEN LET ps == readPages(storage.local, meta[r])
                 n == Len(emitted(ps))
             IN \E ids \in [1..n -> getUniqueRuleID(oldRuleIds[r])] :
                    /\ pages' = [pages EXCEPT ![r] = ps]
                    /\ headers' = [headers EXCEPT ![r] = compile(ps, ids)]
                    /\ pc' = [pc EXCEPT ![r] = "update"]
                    /\ UNCHANGED caught
        ELSE catchError(r) /\ UNCHANGED <<pages, headers>>
    /\ UNCHANGED <<storage, dynamicRules, meta, oldRuleIds, rulesAtStart, unhandled>>
    /\ UNCHANGED storeVars

\* the rule ids of a batch are pairwise distinct
distinctIds(batch) ==
    \A i, j \in DOMAIN batch : batch[i].id = batch[j].id => i = j

\* declarativeNetRequest.updateDynamicRules: the rules left after the removal
rulesKept(removeRuleIds) == {rule \in dynamicRules : rule.id \notin removeRuleIds}

\* declarativeNetRequest.updateDynamicRules: a batch is accepted only if every
\* rule id is unique among the added rules and the rules that stay installed
batchAccepted(removeRuleIds, addRules) ==
    /\ distinctIds(addRules)
    /\ \A rule \in rulesKept(removeRuleIds) :
         \A k \in DOMAIN addRules : addRules[k].id # rule.id

\* a batch that asks for no removal
removeNoRuleIds(r) == {}

\* background.ts 127: removeRuleIds: oldRuleIds
removeRuleIds(r) == oldRuleIds[r]

\* background.ts 126-129: the engine handles the batch of the run atomically;
\* a rejection rejects a promise that the run neither awaits nor catches
updateDynamicRules(r) ==
    /\ pc[r] = "update"
    /\ \E ok \in BOOLEAN :
        IF ok /\ batchAccepted(removeRuleIds(r), headers[r])
        THEN /\ dynamicRules' = rulesKept(removeRuleIds(r)) \cup Range(headers[r])
             /\ pc' = [pc EXCEPT ![r] = "applied"]
             /\ UNCHANGED unhandled
        ELSE /\ pc' = [pc EXCEPT ![r] = "rejected"]
             /\ unhandled' = [unhandled EXCEPT ![r] = TRUE]
             /\ UNCHANGED dynamicRules
    /\ UNCHANGED <<storage, meta, oldRuleIds, pages, headers, rulesAtStart, caught>>
    /\ UNCHANGED storeVars

(***************************************************************************)
(* The graphs found in storage when the rule compiler runs.                *)
(***************************************************************************)
HeaderCatalog ==
    { [headerName |-> "X-B", headerValue |-> "2", headerEnabled |-> TRUE,
       headerType |-> "response"],
      [headerName |-> "X-C", headerValue |-> "3", headerEnabled |-> TRUE,
       headerType |-> Unset],
      [headerName |-> "", headerValue |-> "4", headerEnabled |-> TRUE,
       headerType |-> "request"],
      [headerName |-> "X-D", headerValue |-> "5", headerEnabled |-> FALSE,
       headerType |-> "request"] }

FilterCatalog ==
    { [enabled |-> ev[1], valid |-> ev[2], type |-> t, value |-> v] :
        ev \in {<<TRUE, TRUE>>, <<TRUE, FALSE>>, <<FALSE, TRUE>>},
        t \in {"include", "exclude"}, v \in {"", "a"} }

PageFlags == {<<TRUE, FALSE>>, <<FALSE, TRUE>>, <<FALSE, FALSE>>}

\* ids "<pageId>-<position>" as addHeader and addFilter derive them (settings.ts 688, 782)
derivedId(pageId, position) == ToString(pageId) \o "-" \o ToString(position)

withIds(pageId, items) ==
    [k \in 1..Len(items) |-> [id |-> derivedId(pageId, k)] @@ items[k]]

\* the page lists of n pages holding at most budget headers together, without ids
RECURSIVE pageLists(_, _)
pageLists(n, budget) ==
    IF n = 0 THEN {<<>>}
    ELSE UNION { { <<[flags |-> fl, headers |-> hs]>> \o rest :
                     rest \in pageLists(n - 1, budget - Len(hs)) } :
                 fl \in PageFlags, hs \in SeqsUpTo(HeaderCatalog, budget) }

firstEnabled(ps) ==
    IF \E i \in DOMAIN ps : ps[i].enabled
    THEN (CHOOSE i \in DOMAIN ps : ps[i].enabled /\ \A j \in 1..(i - 1) : ~ps[j].enabled) - 1
    ELSE 0

\* graphs of 1..MaxStoredPages pages without filters, over the header catalog
HeaderGraphs ==
    { LET ps == [i \in 1..Len(l) |->
                    Page(i - 1, "P", l[i].flags[1], l[i].flags[2], <<>>,
                         withIds(i - 1, l[i].headers))]
      IN PagesData(ps, firstEnabled(ps)) :
      l \in UNION {pageLists(n, MaxHeaders) : n \in 1..MaxStoredPages} }

\* graphs of one selected page with one emitted header, over the filter catalog
FilterGraphs ==
    { PagesData(<<Page(0, "P", TRUE, FALSE, withIds(0, fs),
                       <<HeaderSetting("0-1", "X-A", "1", TRUE, "request")>>)>>, 0) :
      fs \in SeqsUpTo(FilterCatalog, MaxFilters) }

StoredGraphs == HeaderGraphs \cup FilterGraphs

\* what the local tier can hold when a run starts: a sharded graph, a sharded
\* graph whose meta names one shard more than exists, a v2 blob, or nothing
StoredTiers ==
    {ShardedTier(g) : g \in StoredGraphs}
    \cup {[ShardedTier(g) EXCEPT !.meta = <<SettingsV3Meta(0, Len(g.pages) + 1)>>] :
            g \in {h \in HeaderGraphs : Len(h.pages) = 1}}
    \cup {LegacyTier(g) : g \in {h \in HeaderGraphs : Len(h.pages) = 1}}
    \cup {EmptyTier}

RunsInit ==
    /\ dynamicRules = {}
    /\ pc = [r \in Runs |-> "idle"]
    /\ meta = [r \in Runs |-> <<>>]
    /\ oldRuleIds = [r \in Runs |-> {}]
    /\ pages = [r \in Runs |-> <<>>]
    /\ headers = [r \in Runs |-> <<>>]
    /\ rulesAtStart = [r \in Runs |-> {}]
    /\ caught = [r \in Runs |-> FALSE]
    /\ unhandled = [r \in Runs |-> FALSE]

(***************************************************************************)
(* The settings store, useFlexHeaderSettings (settings.ts 93-939).         *)
(***************************************************************************)
MaxPages == 3           \* pages of the in-memory graph
MaxFailures == 1        \* storage calls the browser rejects in one behaviour
MaxTicks == 3           \* steps of the clock
TickMs == 30000         \* milliseconds in one step of the clock
MaxMounts == 2          \* times the popup is opened

Tiers == {"local", "sync"}

\* storage.ts 18, settings.ts 149
SyncQuota == 8192
LocalQuota == 5242880
STORAGE_LIMIT(storageType) == IF storageType = "sync" THEN SyncQuota ELSE LocalQuota

\* settings.ts 278
SaveErrorCooldown == 60 * 1000

\* header values that stand for long strings
BigValue == "<9000 characters>"
HugeValue == "<6000000 characters>"

\* the number of UTF-8 bytes of a string
stringBytes(s) ==
    IF s = BigValue THEN 9000 ELSE IF s = HugeValue THEN 6000000 ELSE Len(s)

\* the length of JSON.stringify of a string, a boolean, a number
jsonString(s) == stringBytes(s) + 2
jsonBoolean(b) == IF b THEN 4 ELSE 5
jsonNumber(n) == Len(ToString(n))

\* the length of JSON.stringify of an array whose items have the given sizes
RECURSIVE jsonItems(_)
jsonItems(sizes) ==
    IF sizes = <<>> THEN 0
    ELSE Head(sizes) + (IF Len(sizes) > 1 THEN 1 ELSE 0) + jsonItems(Tail(sizes))

jsonArray(sizes) == 2 + jsonItems(sizes)

\* {"id":..,"headerName":..,"headerValue":..,"headerEnabled":..,"headerType":..}
\* JSON.stringify leaves out a member that is undefined
headerBytes(h) ==
    6 + jsonString(h.id) + 14 + jsonString(h.headerName)
      + 15 + jsonString(h.headerValue) + 17 + jsonBoolean(h.headerEnabled)
      + (IF h.headerType = Unset THEN 0 ELSE 14 + jsonString(h.headerType)) + 1

\* {"id":..,"enabled":..,"valid":..,"type":..,"value":..}
filterBytes(f) ==
    6 + jsonString(f.id) + 11 + jsonBoolean(f.enabled) + 9 + jsonBoolean(f.valid)
      + 8 + jsonString(f.type) + 9 + jsonString(f.value) + 1

\* {"id":..,"name":..,"enabled":..,"keepEnabled":..,"filters":..,"headers":..}
pageBytes(page) ==
    6 + jsonNumber(page.id) + 8 + jsonString(page.name)
      + 11 + jsonBoolean(page.enabled) + 15 + jsonBoolean(page.keepEnabled)
      + 11 + jsonArray([i \in DOMAIN page.filters |-> filterBytes(page.filters[i])])
      + 11 + jsonArray([i \in DOMAIN page.headers |-> headerBytes(page.headers[i])]) + 1

\* {"version":3,"selectedPage":..,"pageCount":..}
metaBytes(m) == 11 + 1 + 16 + jsonNumber(m.selectedPage) + 13 + jsonNumber(m.pageCount) + 1

\* what the store writes under a key: a page shard, the meta record, or one
\* of the scalar keys (darkMode, selectedPage, localModifiedTime, last_sync_time)
pageItem(index, page) == [kind |-> "page", index |-> index, value |-> page]
metaItem(m) == [kind |-> "meta", index |-> 0, value |-> m]
scalarItem(key) == [kind |-> "scalar", index |-> 0, value |-> key]

\* storage.ts 188-191; a scalar is at most a 13-digit number
getDataSizeInBytes(item) ==
    CASE item.kind = "page" -> pageBytes(item.value)
      [] item.kind = "meta" -> metaBytes(item.value)
      [] OTHER -> 13

\* browser.storage[tier].set({[key]: data})
setItem(tier, item) ==
    CASE item.kind = "page" ->
           [tier EXCEPT !.pages = [i \in DOMAIN tier.pages \cup {item.index} |->
                                     IF i = item.index THEN item.value ELSE tier.pages[i]]]
      [] item.kind = "meta" -> [tier EXCEPT !.meta = <<item.value>>]
      [] OTHER -> [tier EXCEPT !.misc = @ \cup {item.value}]

\* which of the set, get and remove calls of a step the browser fulfils
Oks == [Tiers -> BOOLEAN]
AllOk == [t \in Tiers |-> TRUE]

\* storage.ts 10-39: the promise resolves or rejects; rejections counts the
\* set calls the browser rejected
saveToStorage(st, item, storageType, ok) ==
    LET fits == getDataSizeInBytes(item) <= STORAGE_LIMIT(storageType)
        first == IF fits /\ ~ok[storageType] THEN 1 ELSE 0
    IN IF fits /\ ok[storageType]
       THEN [storage |-> [st EXCEPT ![storageType] = setItem(@, item)],
             resolved |-> TRUE, rejections |-> 0]
       ELSE IF storageType = "sync"
       THEN IF ok["local"]
            THEN [storage |-> [st EXCEPT !.local = setItem(@, item)],
                  resolved |-> TRUE, rejections |-> first]
            ELSE [storage |-> st, resolved |-> FALSE, rejections |-> first + 1]
       ELSE [storage |-> st, resolved |-> FALSE, rejections |-> first]

\* the value stored under a key of a tier, as a list of 0 or 1 values
metaKey(tier) == tier.meta
v2Key(tier) == tier.v2
pageKey(tier, i) == IF i \in DOMAIN tier.pages THEN <<tier.pages[i]>> ELSE <<>>

\* storage.ts 48-66 for the key whose values in the tiers are in found, the
\* tiers tried in the order local, sync
loadFromStorage(found, storageTypes, ok) ==
    IF "local" \in storageTypes /\ ok["local"] /\ found["local"] # <<>> THEN found["local"]
    ELSE IF "sync" \in storageTypes /\ ok["sync"] /\ found["sync"] # <<>> THEN found["sync"]
    ELSE <<>>

\* the get calls of loadFromStorage that the browser rejected
loadRejections(found, storageTypes, ok) ==
    LET localTried == "local" \in storageTypes
        localHit == localTried /\ ok["local"] /\ found["local"] # <<>>
        syncTried == "sync" \in storageTypes /\ ~localHit
    IN (IF localTried /\ ~ok["local"] THEN 1 ELSE 0)
       + (IF syncTried /\ ~ok["sync"] THEN 1 ELSE 0)

\* the key's values in the two tiers
metaIn(st) == [t \in Tiers |-> metaKey(st[t])]
v2In(st) == [t \in Tiers |-> v2Key(st[t])]
pageIn(st, i) == [t \in Tiers |-> pageKey(st[t], i)]

\* savePage writing its page under the key of the next index
savePageAtNextIndex(st, page, pageIndex, storageType, ok) ==
    LET r == saveToStorage(st, pageItem(pageIndex + 1, page), storageType, ok)
    IN [storage |-> r.storage, resolved |-> r.resolved,
        rejections |-> r.rejections, tooLarge |-> FALSE]

\* settings.ts 146-166: one savePage call
savePage(st, page, pageIndex, storageType, ok) ==
    IF getDataSizeInBytes(pageItem(pageIndex, page)) > STORAGE_LIMIT(storageType)
    THEN [storage |-> st, resolved |-> FALSE, rejections |-> 0, tooLarge |-> TRUE]
    ELSE LET r == saveToStorage(st, pageItem(pageIndex, page), storageType, ok)
         IN [storage |-> r.storage, resolved |-> r.resolved,
             rejections |-> r.rejections, tooLarge |-> FALSE]

\* settings.ts 199-200, 205-206, 217-218: settings.pages.map(savePage) under
\* Promise.all, from the page at list position i on; oks[i] is page i's Oks
RECURSIVE savePages(_, _, _, _, _)
savePages(st, ps, i, storageType, oks) ==
    IF i > Len(ps)
    THEN [storage |-> st, resolved |-> TRUE, rejections |-> 0, tooLarge |-> FALSE]
    ELSE LET one == savePage(st, ps[i], i - 1, storageType, oks[i])
             rest == savePages(one.storage, ps, i + 1, storageType, oks)
         IN [storage |-> rest.storage,
             resolved |-> one.resolved /\ rest.resolved,
             rejections |-> one.rejections + rest.rejections,
             tooLarge |-> one.tooLarge \/ rest.tooLarge]

\* the state of one save(settings, storageType, callback) call
NoSave ==
    [pc |-> "none", settings |-> PagesData(<<>>, 0), storageType |-> "local",
     tier |-> "local", keysToRemove |-> {}]

saveCall(settings, storageType) ==
    [pc |-> "pages", settings |-> settings, storageType |-> storageType,
     tier |-> IF storageType = "both" THEN "local" ELSE storageType,
     keysToRemove |-> {}]

\* one asynchronous call of the store: retrieveSettings, the save of an
\* edit, syncToRemote, clear
Tasks == {"load", "edit", "sync", "clear"}

IdleTask == [pc |-> "idle", save |-> NoSave, meta |-> <<>>, from |-> "local"]

NoError == [type |-> "None", time |-> 0]

\* settings.ts 94-101, 378, 906-916: the store when the popup opens; its effects
\* have called retrieveSettings and are about to mirror selectedPage
mounted ==
    /\ pagesData = PagesData(<<defaultPage>>, defaultPage.id)
    /\ lastOp = "init"
    /\ hasInitialized = FALSE
    /\ isSavingRef = FALSE
    /\ lastError = NoError
    /\ prevPagesDataRef = <<>>
    /\ alert = ""
    /\ effects = {"selectedPage"}
    /\ task = [t \in Tasks |-> IF t = "load" THEN [IdleTask EXCEPT !.pc = "darkMode"]
                                ELSE IdleTask]

StoreInit ==
    /\ mounted
    /\ saved = <<>>
    /\ now = 0
    /\ failures = 0
    /\ mounts = 1
    /\ probes = {}

(***************************************************************************)
(* save (settings.ts 188-248), one action for each await of the call that  *)
(* task t has made.                                                        *)
(***************************************************************************)
\* settings.ts 231: the call of clearExtraPages; for 'both' the local tier is
\* cleared, then the sync tier
clearExtraPagesCall(s) ==
    [s EXCEPT !.pc = "clear", !.keysToRemove = {},
              !.tier = IF s.storageType = "both" THEN "local" ELSE s.storageType]

\* a promise that save awaits has rejected: the catch of 211-213 while 'both'
\* is on the sync tier, the catch of 238 otherwise
rejectedIn(s) ==
    IF s.storageType = "both" /\ s.tier = "sync" THEN clearExtraPagesCall(s)
    ELSE [s EXCEPT !.pc = "catch"]

\* settings.ts 133-137: a tier has been cleared
clearedIn(s) ==
    IF s.storageType = "both" /\ s.tier = "local"
    THEN [s EXCEPT !.pc = "clear", !.tier = "sync", !.keysToRemove = {}]
    ELSE [s EXCEPT !.pc = "finish", !.keysToRemove = {}]

\* settings.ts 191-195
metadataOf(settings) == SettingsV3Meta(settings.selectedPage, Len(settings.pages))

\* settings.ts 199-200, 205-206, 217-218
SavePages(t) ==
    /\ task[t].save.pc = "pages"
    /\ LET s == task[t].save
       IN \E oks \in [1..Len(s.settings.pages) -> Oks] :
            LET r == savePages(storage, s.settings.pages, 1, s.tier, oks)
            IN /\ failures + r.rejections <= MaxFailures
               /\ failures' = failures + r.rejections
               /\ storage' = r.storage
               /\ alert' = IF r.tooLarge THEN "Page too large" ELSE alert
               /\ task' = [task EXCEPT ![t].save = IF r.resolved THEN [s EXCEPT !.pc = "meta"]
                                                    ELSE rejectedIn(s)]
               /\ saved' = IF s.tier = "local" THEN <<>> ELSE saved
    /\ UNCHANGED <<dynamicRules, runVars, graphVars, hasInitialized, isSavingRef,
                   lastError, prevPagesDataRef, now, mounts, probes>>

\* the save goes on without writing the meta record
skipMetadata(st, settings, storageType, ok) ==
    [storage |-> st, resolved |-> TRUE, rejections |-> 0]

\* settings.ts 173-180
saveMetadata(st, settings, storageType, ok) ==
    saveToStorage(st, metaItem(metadataOf(settings)), storageType, ok)

\* settings.ts 201, 207, 222
SaveMeta(t) ==
    /\ task[t].save.pc = "meta"
    /\ LET s == task[t].save
       IN \E ok \in Oks :
            LET r == saveMetadata(storage, s.settings, s.tier, ok)
                next == CASE s.storageType = "both" /\ s.tier = "local" ->
                               [s EXCEPT !.pc = "pages", !.tier = "sync"]
                          [] s.storageType = "both" /\ s.tier = "sync" ->
                               [s EXCEPT !.pc = "lastSync"]
                          [] s.storageType = "local" -> [s EXCEPT !.pc = "modified"]
                          [] OTHER -> clearExtraPagesCall(s)
            IN /\ failures + r.rejections <= MaxFailures
               /\ failures' = failures + r.rejections
               /\ storage' = r.storage
               /\ task' = [task EXCEPT ![t].save = IF r.resolved THEN next ELSE rejectedIn(s)]
    /\ UNCHANGED <<dynamicRules, runVars, graphVars, hasInitialized, isSavingRef,
                   lastError, prevPagesDataRef, alert, saved, now, mounts, probes>>

\* settings.ts 225-227
SaveModified(t) ==
    /\ task[t].save.pc = "modified"
    /\ LET s == task[t].save
       IN \E ok \in Oks :
            LET r == saveToStorage(storage, scalarItem("localModifiedTime"), "local", ok)
            IN /\ failures + r.rejections <= MaxFailures
               /\ failures' = failures + r.rejections
               /\ storage' = r.storage
               /\ task' = [task EXCEPT ![t].save = IF r.resolved THEN clearExtraPagesCall(s)
                                                    ELSE rejectedIn(s)]
    /\ UNCHANGED <<dynamicRules, runVars, graphVars, hasInitialized, isSavingRef,
                   lastError, prevPagesDataRef, alert, saved, now, mounts, probes>>

\* settings.ts 210-213
SaveLastSync(t) ==
    /\ task[t].save.pc = "lastSync"
    /\ LET s == task[t].save
       IN \E ok \in Oks :
            LET r == saveToStorage(storage, scalarItem("last_sync_time"), "local", ok)
            IN /\ failures + r.rejections <= MaxFailures
               /\ failures' = failures + r.rejections
               /\ storage' = r.storage
               /\ task' = [task EXCEPT ![t].save = clearExtraPagesCall(s)]
    /\ UNCHANGED <<dynamicRules, runVars, graphVars, hasInitialized, isSavingRef,
                   lastError, prevPagesDataRef, alert, saved, now, mounts, probes>>

\* clearExtraPages finding no shard to remove
noExtraPages(tier, currentPageCount) == {}

\* settings.ts 113-120: the shards of the tier at or past currentPageCount
extraPages(tier, currentPageCount) == {i \in DOMAIN tier.pages : i >= currentPageCount}

\* settings.ts 113-123, 127-130
ClearExtraGet(t) ==
    /\ task[t].save.pc = "clear"
    /\ LET s == task[t].save
       IN \E ok \in BOOLEAN :
            LET keysToRemove == IF ok THEN extraPages(storage[s.tier], Len(s.settings.pages))
                                ELSE {}
            IN /\ ok \/ failures < MaxFailures
               /\ failures' = IF ok THEN failures ELSE failures + 1
               /\ task' = [task EXCEPT ![t].save =
                             IF keysToRemove = {} THEN clearedIn(s)
                             ELSE [s EXCEPT !.pc = "remove", !.keysToRemove = keysToRemove]]
    /\ UNCHANGED <<storage, dynamicRules, runVars, graphVars, hasInitialized, isSavingRef,
                   lastError, prevPagesDataRef, alert, saved, now, mounts, probes>>

\* browser.storage[tier].remove of page shards
removePages(tier, keys) ==
    [tier EXCEPT !.pages = [i \in DOMAIN tier.pages \ keys |-> tier.pages[i]]]

\* settings.ts 125, 127-130
ClearExtraRemove(t) ==
    /\ task[t].save.pc = "remove"
    /\ LET s == task[t].save
       IN \E ok \in BOOLEAN :
            /\ ok \/ failures < MaxFailures
            /\ failures' = IF ok THEN failures ELSE failures + 1
            /\ storage' = IF ok THEN [storage EXCEPT ![s.tier] = removePages(@, s.keysToRemove)]
                          ELSE storage
            /\ task' = [task EXCEPT ![t].save = clearedIn(s)]
    /\ UNCHANGED <<dynamicRules, runVars, graphVars, hasInitialized, isSavingRef,
                   lastError, prevPagesDataRef, alert, saved, now, mounts, probes>>

\* settings.ts 233-237; the callback of an edit's save (298-305) sets a timer
SaveFinish(t) ==
    /\ task[t].save.pc = "finish"
    /\ task' = [task EXCEPT ![t].save.pc = "done",
                            ![t].pc = IF t = "edit" THEN "timer" ELSE @]
    /\ lastError' = NoError
    /\ effects' = effects \cup {"save"}
    /\ saved' = IF task[t].save.storageType = "local" THEN <<task[t].save.settings>>
                ELSE saved
    /\ UNCHANGED <<storage, dynamicRules, runVars, pagesData, lastOp, hasInitialized,
                   isSavingRef, prevPagesDataRef, alert, envVars>>

\* settings.ts 238-246
SaveCatch(t) ==
    /\ task[t].save.pc = "catch"
    /\ task' = [task EXCEPT ![t].save.pc = "failed",
                            ![t].pc = IF t = "edit" THEN "idle" ELSE @]
    /\ lastError' = [type |-> "SaveError", time |-> now]
    /\ alert' = "Failed to save settings"
    /\ effects' = effects \cup {"save"}
    /\ UNCHANGED <<storage, dynamicRules, runVars, pagesData, lastOp, hasInitialized,
                   isSavingRef, prevPagesDataRef, saved, envVars>>

(***************************************************************************)
(* The effects and the asynchronous calls of the store.                    *)
(***************************************************************************)
\* the effects that a new in-memory graph makes due: the save effect
\* (380-401, on pagesData) and the selectedPage mirror (910-916)
effectsAfter(pd) ==
    effects \cup {"save"}
            \cup (IF pd.selectedPage # pagesData.selectedPage THEN {"selectedPage"} ELSE {})

\* setHasInitialized(true) makes the sync effect (311-375) and the save
\* effect due
effectsOfInitialized == {"sync", "save"}

\* settings.ts 276-279
recentSaveError ==
    /\ lastError.type = "SaveError"
    /\ now - lastError.time < SaveErrorCooldown

\* settings.ts 910-916: both writes of the selectedPage mirror
mirrorSelectedPage(st) ==
    saveToStorage(saveToStorage(st, scalarItem("selectedPage"), "local", AllOk).storage,
                  scalarItem("selectedPage"), "sync", AllOk).storage

\* a save without the guard of the saving flag
neverSaving == FALSE

\* settings.ts 270, 317, 381: isSavingRef.current === true
alreadySaving == isSavingRef

\* The effects that are due run in the order of their definition: the sync
\* effect starts syncToRemote (315-327, 367), the save effect calls
\* saveWithSync (267-308, 380-401), the last effect mirrors selectedPage.
RunEffects ==
    /\ effects # {}
    /\ LET syncStarts == "sync" \in effects /\ hasInitialized /\ ~alreadySaving
           saveDue == /\ "save" \in effects
                      /\ ~(alreadySaving \/ syncStarts)
                      /\ hasInitialized
                      /\ prevPagesDataRef # <<pagesData>>
           saveStarts == saveDue /\ ~recentSaveError
       IN /\ prevPagesDataRef' = IF saveDue THEN <<pagesData>> ELSE prevPagesDataRef
          /\ alert' = IF saveDue /\ recentSaveError THEN "Changes not saved due to recent error"
                      ELSE alert
          /\ isSavingRef' = (isSavingRef \/ syncStarts \/ saveStarts)
          /\ task' = [task EXCEPT
                        !["sync"] = IF syncStarts THEN [IdleTask EXCEPT !.pc = "meta"] ELSE @,
                        !["edit"] = IF saveStarts
                                    THEN [IdleTask EXCEPT !.pc = "saving",
                                                          !.save = saveCall(pagesData, "local")]
                                    ELSE @]
          /\ storage' = IF "selectedPage" \in effects THEN mirrorSelectedPage(storage)
                        ELSE storage
    /\ effects' = {}
    /\ UNCHANGED <<dynamicRules, runVars, pagesData, lastOp, hasInitialized, lastError,
                   saved, envVars>>

\* settings.ts 301-304: the timer of the callback of an edit's save
EditTimer ==
    /\ task["edit"].pc = "timer"
    /\ isSavingRef' = FALSE
    /\ task' = [task EXCEPT !["edit"].pc = "idle"]
    /\ UNCHANGED <<storage, dynamicRules, runVars, graphVars, hasInitialized, lastError,
                   prevPagesDataRef, alert, saved, envVars>>

\* settings.ts 370: the interval timer calls syncToRemote (315-327)
SyncInterval ==
    /\ hasInitialized
    /\ ~alreadySaving
    /\ task["sync"].pc = "idle"
    /\ isSavingRef' = TRUE
    /\ task' = [task EXCEPT !["sync"] = [IdleTask EXCEPT !.pc = "meta"]]
    /\ UNCHANGED <<storage, dynamicRules, runVars, graphVars, hasInitialized, lastError,
                   prevPagesDataRef, alert, saved, envVars>>

\* settings.ts 330-334, 360-363
SyncMeta ==
    /\ task["sync"].pc = "meta"
    /\ \E ok \in Oks :
         LET m == loadFromStorage(metaIn(storage), {"local"}, ok)
             rejections == loadRejections(metaIn(storage), {"local"}, ok)
         IN /\ failures + rejections <= MaxFailures
            /\ failures' = failures + rejections
            /\ task' = [task EXCEPT !["sync"] = IF m = <<>> THEN IdleTask
                                                ELSE [@ EXCEPT !.pc = "pages", !.meta = m]]
            /\ isSavingRef' = IF m = <<>> THEN FALSE ELSE isSavingRef
    /\ UNCHANGED <<storage, dynamicRules, runVars, graphVars, hasInitialized, lastError,
                   prevPagesDataRef, alert, saved, now, mounts, probes>>

\* a load that finds no shard
loadNoPages(st, storageType, i, pageCount, failing) == <<>>

\* the page_0 .. page_(pageCount-1) that loadFromStorage finds in one tier,
\* nulls filtered out; failing holds the indexes whose get is rejected
RECURSIVE loadPages(_, _, _, _, _)
loadPages(st, storageType, i, pageCount, failing) ==
    IF i >= pageCount THEN <<>>
    ELSE loadFromStorage(pageIn(st, i), {storageType}, [t \in Tiers |-> i \notin failing])
         \o loadPages(st, storageType, i + 1, pageCount, failing)

\* the sets of get calls, out of pageCount, that the browser may still reject
Failing(pageCount) ==
    {failing \in SUBSET (0..(pageCount - 1)) : failures + Cardinality(failing) <= MaxFailures}

\* JSON.parse(JSON.stringify(pages)) (349): every member is a string, a
\* number, a boolean or an array of such objects, and a member that is
\* undefined stays left out
jsonCopy(ps) ==
    [i \in 1..Len(ps) |->
       Page(ps[i].id, ps[i].name, ps[i].enabled, ps[i].keepEnabled,
            [j \in 1..Len(ps[i].filters) |->
               HeaderFilter(ps[i].filters[j].id, ps[i].filters[j].enabled,
                            ps[i].filters[j].valid, ps[i].filters[j].type,
                            ps[i].filters[j].value)],
            [j \in 1..Len(ps[i].headers) |->
               HeaderSetting(ps[i].headers[j].id, ps[i].headers[j].headerName,
                             ps[i].headers[j].headerValue, ps[i].headers[j].headerEnabled,
                             ps[i].headers[j].headerType)])]

\* settings.ts 337-353, 360-363
SyncPages ==
    /\ task["sync"].pc = "pages"
    /\ LET m == task["sync"].meta[1]
       IN \E failing \in Failing(m.pageCount) :
            LET loaded == loadPages(storage, "local", 0, m.pageCount, failing)
                dataToSync == PagesData(jsonCopy(loaded), m.selectedPage)
            IN /\ failures' = failures + Cardinality(failing)
               /\ task' = [task EXCEPT !["sync"] =
                             IF loaded = <<>> THEN IdleTask
                             ELSE [@ EXCEPT !.pc = "saving", !.save = saveCall(dataToSync, "sync")]]
               /\ isSavingRef' = IF loaded = <<>> THEN FALSE ELSE isSavingRef
    /\ UNCHANGED <<storage, dynamicRules, runVars, graphVars, hasInitialized, lastError,
                   prevPagesDataRef, alert, saved, now, mounts, probes>>

\* settings.ts 353-363: save has returned
SyncSaved ==
    /\ task["sync"].pc = "saving"
    /\ task["sync"].save.pc \in {"done", "failed"}
    /\ \E ok \in Oks :
         LET r == saveToStorage(storage, scalarItem("last_sync_time"), "local", ok)
         IN /\ failures + r.rejections <= MaxFailures
            /\ failures' = failures + r.rejections
            /\ storage' = r.storage
    /\ isSavingRef' = FALSE
    /\ task' = [task EXCEPT !["sync"] = IdleTask]
    /\ UNCHANGED <<dynamicRules, runVars, graphVars, hasInitialized, lastError,
                   prevPagesDataRef, alert, saved, now, mounts, probes>>

(***************************************************************************)
(* retrieveSettings (settings.ts 406-533), one action for each await.      *)
(***************************************************************************)
\* settings.ts 452-464
withHeaderType(page) ==
    [page EXCEPT !.headers = [j \in DOMAIN page.headers |->
        [page.headers[j] EXCEPT !.headerType = IF @ = Unset THEN "request" ELSE @]]]

\* settings.ts 408-418: no darkMode value other than false is ever stored, so
\* the default is written to the local tier; a rejection is caught
LoadDarkMode ==
    /\ task["load"].pc = "darkMode"
    /\ \E ok \in Oks :
         LET r == saveToStorage(storage, scalarItem("darkMode"), "local", ok)
         IN /\ failures + r.rejections <= MaxFailures
            /\ failures' = failures + r.rejections
            /\ storage' = r.storage
    /\ task' = [task EXCEPT !["load"].pc = "meta"]
    /\ UNCHANGED <<dynamicRules, runVars, graphVars, hasInitialized, isSavingRef, lastError,
                   prevPagesDataRef, alert, saved, now, mounts, probes>>

\* settings.ts 422
LoadMeta ==
    /\ task["load"].pc = "meta"
    /\ \E ok \in Oks :
         LET rejections == loadRejections(metaIn(storage), Tiers, ok)
         IN /\ failures + rejections <= MaxFailures
            /\ failures' = failures + rejections
            /\ task' = [task EXCEPT !["load"].pc = "whichTier",
                                    !["load"].meta = loadFromStorage(metaIn(storage), Tiers, ok)]
    /\ UNCHANGED <<storage, dynamicRules, runVars, graphVars, hasInitialized, isSavingRef,
                   lastError, prevPagesDataRef, alert, saved, now, mounts, probes>>

\* settings.ts 423-435
LoadWhichTier ==
    /\ task["load"].pc = "whichTier"
    /\ \E ok \in BOOLEAN :
         /\ ok \/ failures < MaxFailures
         /\ failures' = IF ok THEN failures ELSE failures + 1
         /\ task' = [task EXCEPT
                       !["load"].from = IF ok /\ storage.local.meta # <<>> THEN "local" ELSE "sync",
                       !["load"].pc = IF task["load"].meta # <<>> THEN "pages" ELSE "v2"]
    /\ UNCHANGED <<storage, dynamicRules, runVars, graphVars, hasInitialized, isSavingRef,
                   lastError, prevPagesDataRef, alert, saved, now, mounts, probes>>

\* settings.ts 443-490
LoadPages ==
    /\ task["load"].pc = "pages"
    /\ LET m == task["load"].meta[1]
           storageType == task["load"].from
       IN \E failing \in Failing(m.pageCount) :
            LET found == loadPages(storage, storageType, 0, m.pageCount, failing)
                loaded == [i \in DOMAIN found |-> withHeaderType(found[i])]
                pd == IF loaded = <<>> THEN PagesData(<<defaultPage>>, defaultPage.id)
                      ELSE PagesData(loaded, m.selectedPage)
                saves == loaded # <<>> /\ storageType = "sync"
            IN /\ failures' = failures + Cardinality(failing)
               /\ pagesData' = pd
               /\ lastOp' = "retrieveSettings"
               /\ hasInitialized' = ~saves
               /\ effects' = effectsAfter(pd) \cup (IF saves THEN {} ELSE effectsOfInitialized)
               /\ task' = [task EXCEPT !["load"] =
                             IF saves THEN [@ EXCEPT !.pc = "saveLocal", !.save = saveCall(pd, "local")]
                             ELSE [@ EXCEPT !.pc = "done"]]
    /\ UNCHANGED <<storage, dynamicRules, runVars, isSavingRef, lastError,
                   prevPagesDataRef, alert, saved, now, mounts, probes>>

\* settings.ts 482-490: save has returned
LoadSavedLocal ==
    /\ task["load"].pc = "saveLocal"
    /\ task["load"].save.pc \in {"done", "failed"}
    /\ hasInitialized' = TRUE
    /\ effects' = effects \cup effectsOfInitialized
    /\ task' = [task EXCEPT !["load"].pc = "done"]
    /\ UNCHANGED <<storage, dynamicRules, runVars, pagesData, lastOp, isSavingRef, lastError,
                   prevPagesDataRef, alert, saved, envVars>>

\* settings.ts 494-500, 511-516
LoadV2 ==
    /\ task["load"].pc = "v2"
    /\ \E ok \in Oks :
         LET v2Data == loadFromStorage(v2In(storage), {"sync"}, ok)
             rejections == loadRejections(v2In(storage), {"sync"}, ok)
             pd == PagesData(<<defaultPage>>, defaultPage.id)
         IN /\ failures + rejections <= MaxFailures
            /\ failures' = failures + rejections
            /\ IF v2Data # <<>>
               THEN /\ task' = [task EXCEPT !["load"].pc = "migrate",
                                            !["load"].save = saveCall(v2Data[1], "both")]
                    /\ UNCHANGED <<graphVars, hasInitialized>>
               ELSE /\ task' = [task EXCEPT !["load"].pc = "done"]
                    /\ pagesData' = pd
                    /\ lastOp' = "retrieveSettings"
                    /\ hasInitialized' = TRUE
                    /\ effects' = effectsAfter(pd) \cup effectsOfInitialized
    /\ UNCHANGED <<storage, dynamicRules, runVars, isSavingRef, lastError,
                   prevPagesDataRef, alert, saved, now, mounts, probes>>

\* settings.ts 500-508, 518-531: save has returned; when the browser rejects
\* the remove, the catch shows the default graph
LoadMigrated ==
    /\ task["load"].pc = "migrate"
    /\ task["load"].save.pc \in {"done", "failed"}
    /\ \E ok \in BOOLEAN :
         LET pd == IF ok THEN task["load"].save.settings
                   ELSE PagesData(<<defaultPage>>, defaultPage.id)
         IN /\ ok \/ failures < MaxFailures
            /\ failures' = IF ok THEN failures ELSE failures + 1
            /\ storage' = IF ok THEN [storage EXCEPT !.sync.v2 = <<>>] ELSE storage
            /\ alert' = IF ok THEN alert ELSE "Failed to load settings"
            /\ pagesData' = pd
            /\ effects' = effectsAfter(pd) \cup effectsOfInitialized
    /\ lastOp' = "retrieveSettings"
    /\ hasInitialized' = TRUE
    /\ task' = [task EXCEPT !["load"].pc = "done"]
    /\ UNCHANGED <<dynamicRules, runVars, isSavingRef, lastError, prevPagesDataRef,
                   saved, now, mounts, probes>>

\* the clock: TickMs pass; the effects of a render run within the tick of
\* that render
Tick ==
    /\ effects = {}
    /\ now < MaxTicks * TickMs
    /\ now' = now + TickMs
    /\ UNCHANGED <<storage, dynamicRules, runVars, graphVars, hookVars, failures, mounts, probes>>

\* the popup is closed and opened again: a new store is mounted (94-101,
\* 378, 906-916) and the calls of the old one are gone
Reopen ==
    /\ mounts < MaxMounts
    /\ mounts' = mounts + 1
    /\ probes' = {}
    /\ pagesData' = PagesData(<<defaultPage>>, defaultPage.id)
    /\ lastOp' = "init"
    /\ hasInitialized' = FALSE
    /\ isSavingRef' = FALSE
    /\ lastError' = NoError
    /\ prevPagesDataRef' = <<>>
    /\ alert' = ""
    /\ effects' = {"selectedPage"}
    /\ task' = [t \in Tasks |-> IF t = "load" THEN [IdleTask EXCEPT !.pc = "darkMode"]
                                ELSE IdleTask]
    /\ UNCHANGED <<storage, dynamicRules, runVars, saved, now, failures>>

\* settings.ts 556-568
addPage(pd, page) ==
    LET newPages == [i \in 1..Len(pd.pages) |-> [pd.pages[i] EXCEPT !.enabled = FALSE]]
                    \o <<[page EXCEPT !.id = Len(pd.pages), !.enabled = TRUE]>>
    IN PagesData(newPages, Len(newPages) - 1)

\* settings.ts 622-626 (_changeSelectedPage)
changeSelectedPageOf(id, ps) ==
    [i \in 1..Len(ps) |-> [ps[i] EXCEPT !.enabled = (ps[i].id = id)]]

\* the pages of ps in list order with id = index (settings.ts 583, 647-650)
reindexed(ps) == [i \in 1..Len(ps) |-> [ps[i] EXCEPT !.id = i - 1]]

\* removePage without the re-indexing of line 583
removePageKeepingIds(pd, id, autoSelectPage) ==
    LET kept == SelectSeq(pd.pages, LAMBDA page : page.id # id)
        newPages == IF kept = <<>> THEN <<defaultPage>> ELSE kept
        newPageId == IF autoSelectPage THEN newPages[Len(newPages)].id
                     ELSE pd.selectedPage
    IN PagesData(changeSelectedPageOf(newPageId, newPages), newPageId)

\* settings.ts 575-601
removePage(pd, id, autoSelectPage) ==
    LET kept == SelectSeq(pd.pages, LAMBDA page : page.id # id)
        newPages == reindexed(IF kept = <<>> THEN <<defaultPage>> ELSE kept)
        newPageId == IF autoSelectPage THEN newPages[Len(newPages)].id
                     ELSE pd.selectedPage
    IN PagesData(changeSelectedPageOf(newPageId, newPages), newPageId)

\* settings.ts 632-639
changeSelectedPage(pd, id) == PagesData(changeSelectedPageOf(id, pd.pages), id)

\* Array.prototype.splice(start, 0, item) for start >= 0
spliceIn(ps, start, item) ==
    LET at == IF start > Len(ps) THEN Len(ps) ELSE start
    IN SubSeq(ps, 1, at) \o <<item>> \o SubSeq(ps, at + 1, Len(ps))

\* settings.ts 641-656, oldIndex being the index of a page
changePageIndex(pd, oldIndex, newIndex) ==
    LET removed == pd.pages[oldIndex + 1]
        rest == SubSeq(pd.pages, 1, oldIndex) \o SubSeq(pd.pages, oldIndex + 2, Len(pd.pages))
        newPages == spliceIn(rest, IF newIndex > 0 THEN newIndex ELSE 0, removed)
    IN PagesData(reindexed(newPages), newIndex)

\* App.tsx 53-56: currentPage
currentPage(pd) ==
    IF \E i \in DOMAIN pd.pages : pd.pages[i].id = pd.selectedPage
    THEN pd.pages[CHOOSE i \in DOMAIN pd.pages :
                    /\ pd.pages[i].id = pd.selectedPage
                    /\ \A j \in 1..(i - 1) : pd.pages[j].id # pd.selectedPage]
    ELSE pd.pages[1]

\* App.tsx 91-113 (_addPage): a blank page, or a copy of the current page
newPageInputs(pd) ==
    { Page(Len(pd.pages), "New Page", TRUE, FALSE, <<>>, <<>>),
      [currentPage(pd) EXCEPT !.id = Len(pd.pages),
                              !.name = "New Page " \o ToString(Len(pd.pages))] }

pageIds(pd) == {pd.pages[i].id : i \in DOMAIN pd.pages}

\* a store operation replaces the in-memory graph (setPagesData); removePage
\* and importSettings also show an alert (settings.ts 596-600, 895-899)
setPagesData(pd, op) ==
    /\ pagesData' = pd
    /\ lastOp' = op
    /\ effects' = effectsAfter(pd)
    /\ alert' = IF op = "removePage" THEN "Page removed."
                ELSE IF op = "importSettings" THEN "Settings imported."
                ELSE alert
    /\ UNCHANGED <<storage, dynamicRules, runVars, hasInitialized, isSavingRef, lastError,
                   prevPagesDataRef, task, saved, envVars>>

AddPage ==
    /\ Len(pagesData.pages) < MaxPages
    /\ \E page \in newPageInputs(pagesData) :
         setPagesData(addPage(pagesData, page), "addPage")

RemovePage ==
    \E id \in pageIds(pagesData), autoSelectPage \in BOOLEAN :
        setPagesData(removePage(pagesData, id, autoSelectPage), "removePage")

ChangeSelectedPage ==
    \E id \in pageIds(pagesData) :
        setPagesData(changeSelectedPage(pagesData, id), "changeSelectedPage")

\* pagesTabs/index.tsx 41, 45: the buttons pass the index of a page and the
\* index before or after it
ChangePageIndex ==
    \E oldIndex \in 0..(Len(pagesData.pages) - 1), newIndex \in -1..Len(pagesData.pages) :
        setPagesData(changePageIndex(pagesData, oldIndex, newIndex), "changePageIndex")

(***************************************************************************)
(* SpecPages: the page operations on the in-memory graph.                  *)
(***************************************************************************)
InitPages ==
    /\ storage = [local |-> EmptyTier, sync |-> EmptyTier]
    /\ RunsInit
    /\ StoreInit

NextPages ==
    \/ AddPage
    \/ RemovePage
    \/ ChangeSelectedPage
    \/ ChangePageIndex
    \/ RunEffects

SpecPages == InitPages /\ [][NextPages]_vars

(***************************************************************************)
(* SpecImport: the page operations on the in-memory graph together with    *)
(* the import of a settings file (importSettings, settings.ts 869-904).    *)
(***************************************************************************)
\* the longest array of pages in an imported file
MaxImported == 2

\* the page objects of an imported file: their ids are those of the graph
\* they were exported from, and a header of an old export has no headerType
ImportedPages ==
    { Page(0, "Imported A", TRUE, FALSE, <<>>,
           <<HeaderSetting("a-1", "X-Imported", "1", TRUE, Unset)>>),
      Page(5, "Imported B", FALSE, TRUE, <<>>, <<>>) }

\* JSON.parse(result) when it is an array of pages
ImportFiles == SeqsUpTo(ImportedPages, MaxImported)

\* importSettings that appends the pages of the file with the ids they have
importSettingsKeepingIds(pd, parsed) ==
    PagesData(pd.pages \o parsed, pd.selectedPage)

\* settings.ts 878-893
importSettings(pd, parsed) ==
    LET combinedPages == pd.pages \o parsed
        newPages == [index \in 1..Len(combinedPages) |->
                       [combinedPages[index] EXCEPT
                          !.id = index - 1,
                          !.headers = [j \in DOMAIN @ |->
                              [@[j] EXCEPT !.headerType = IF @ = Unset THEN "request" ELSE @]]]]
    IN PagesData(newPages, pd.selectedPage)

\* settings.ts 869-904: the file has been read and holds an array
ImportSettings ==
    \E parsed \in ImportFiles :
        /\ Len(pagesData.pages) + Len(parsed) <= MaxPages
        /\ setPagesData(importSettings(pagesData, parsed), "importSettings")

NextImport ==
    \/ AddPage
    \/ RemovePage
    \/ ChangeSelectedPage
    \/ ImportSettings
    \/ RunEffects

SpecImport == InitPages /\ [][NextImport]_vars

(***************************************************************************)
(* SpecHeaders and SpecFilters: the header operations and the filter       *)
(* operations of the store on the in-memory graph (settings.ts 667-813),   *)
(* each together with the page operations that change the ids of pages.    *)
(***************************************************************************)
\* the most headers and the most filters of a page
MaxItems == 2

\* what precedes the first "-" of the ids the store derives: "default"
\* (settings.ts 63) or a page id (688, 782)
IdPrefixes == {"default"} \cup {ToString(i) : i \in 0..MaxPages}

\* id.split("-")[0] for an id "<prefix>-<n>"
splitFirst(id) ==
    CHOOSE p \in IdPrefixes : \E n \in 1..(MaxItems + 1) : id = p \o "-" \o ToString(n)

\* settings.ts 667-671
reIndexHeaders(hs) ==
    [index \in 1..Len(hs) |->
       [hs[index] EXCEPT !.id = splitFirst(@) \o "-" \o ToString(index)]]

\* removeHeader without _reIndexHeaders
removeHeaderKeepingIds(pd, pageId, id) ==
    PagesData([i \in DOMAIN pd.pages |->
                 IF pd.pages[i].id = pageId
                 THEN [pd.pages[i] EXCEPT !.headers = SelectSeq(@, LAMBDA h : h.id # id)]
                 ELSE pd.pages[i]],
              pd.selectedPage)

\* settings.ts 678-701; header carries no id
addHeader(pd, pageId, header) ==
    PagesData([i \in DOMAIN pd.pages |->
                 IF pd.pages[i].id = pageId
                 THEN [pd.pages[i] EXCEPT !.headers =
                         Append(@, HeaderSetting(derivedId(pageId, Len(@) + 1),
                                                 header.headerName, header.headerValue,
                                                 header.headerEnabled,
                                                 IF header.headerType = Unset THEN "request"
                                                 ELSE header.headerType))]
                 ELSE pd.pages[i]],
              pd.selectedPage)

\* settings.ts 708-724
removeHeader(pd, pageId, id) ==
    PagesData([i \in DOMAIN pd.pages |->
                 IF pd.pages[i].id = pageId
                 THEN [pd.pages[i] EXCEPT !.headers =
                         reIndexHeaders(SelectSeq(@, LAMBDA h : h.id # id))]
                 ELSE pd.pages[i]],
              pd.selectedPage)

\* settings.ts 732-743
saveHeaders(pd, newHeaders, pageId) ==
    PagesData([i \in DOMAIN pd.pages |->
                 IF pd.pages[i].id = pageId
                 THEN [pd.pages[i] EXCEPT !.headers = reIndexHeaders(newHeaders)]
                 ELSE pd.pages[i]],
              pd.selectedPage)

\* settings.ts 775-792; filter carries no id
addFilter(pd, pageId, filter) ==
    PagesData([i \in DOMAIN pd.pages |->
                 IF pd.pages[i].id = pageId
                 THEN [pd.pages[i] EXCEPT !.filters =
                         Append(@, HeaderFilter(derivedId(pageId, Len(@) + 1), filter.enabled,
                                                filter.valid, filter.type, filter.value))]
                 ELSE pd.pages[i]],
              pd.selectedPage)

\* settings.ts 799-813
removeFilter(pd, pageId, filterId) ==
    PagesData([i \in DOMAIN pd.pages |->
                 IF pd.pages[i].id = pageId
                 THEN [pd.pages[i] EXCEPT !.filters = SelectSeq(@, LAMBDA f : f.id # filterId)]
                 ELSE pd.pages[i]],
              pd.selectedPage)

\* App.tsx 19-29
reorder(list, startIndex, endIndex) ==
    LET removed == list[startIndex + 1]
        rest == SubSeq(list, 1, startIndex) \o SubSeq(list, startIndex + 2, Len(list))
    IN SubSeq(rest, 1, endIndex) \o <<removed>> \o SubSeq(rest, endIndex + 1, Len(rest))

\* App.tsx 58-64
AddHeader ==
    /\ Len(currentPage(pagesData).headers) < MaxItems
    /\ setPagesData(addHeader(pagesData, currentPage(pagesData).id,
                              [headerName |-> "", headerValue |-> "", headerEnabled |-> TRUE,
                               headerType |-> Unset]),
                    "addHeader")

\* App.tsx 66-68, 228: the remove button of a header row
RemoveHeader ==
    \E j \in DOMAIN currentPage(pagesData).headers :
        setPagesData(removeHeader(pagesData, currentPage(pagesData).id,
                                  currentPage(pagesData).headers[j].id),
                     "removeHeader")

\* App.tsx 138-150: a header row is dragged to another place
SaveHeaders ==
    LET hs == currentPage(pagesData).headers
    IN \E from \in 0..(Len(hs) - 1), to \in 0..(Len(hs) - 1) :
         /\ from # to
         /\ setPagesData(saveHeaders(pagesData, reorder(hs, from, to),
                                     currentPage(pagesData).id),
                         "saveHeaders")

\* App.tsx 74-81
AddFilter ==
    /\ Len(currentPage(pagesData).filters) < MaxItems
    /\ setPagesData(addFilter(pagesData, currentPage(pagesData).id,
                              [type |-> "include", value |-> "http*", enabled |-> TRUE,
                               valid |-> FALSE]),
                    "addFilter")

\* App.tsx 87-89, 262: the remove button of a filter row
RemoveFilter ==
    \E j \in DOMAIN currentPage(pagesData).filters :
        setPagesData(removeFilter(pagesData, currentPage(pagesData).id,
                                  currentPage(pagesData).filters[j].id),
                     "removeFilter")

\* App.tsx 91-113: a blank page or a copy of the current page is added
AddPageOfItems ==
    /\ Len(pagesData.pages) < MaxStoredPages
    /\ \E page \in newPageInputs(pagesData) :
         setPagesData(addPage(pagesData, page), "addPage")

NextHeaders ==
    \/ AddHeader
    \/ RemoveHeader
    \/ SaveHeaders
    \/ AddPageOfItems
    \/ RemovePage
    \/ ChangeSelectedPage
    \/ ChangePageIndex
    \/ RunEffects

SpecHeaders == InitPages /\ [][NextHeaders]_vars

NextFilters ==
    \/ AddFilter
    \/ RemoveFilter
    \/ AddPageOfItems
    \/ RemovePage
    \/ ChangeSelectedPage
    \/ ChangePageIndex
    \/ RunEffects

SpecFilters == InitPages /\ [][NextFilters]_vars

(***************************************************************************)
(* SpecProbe: updateFilter (settings.ts 820-841) and its asynchronous      *)
(* probe filterIsValid (72-87), with the header and filter operations the  *)
(* user performs while a probe is in flight.                               *)
(***************************************************************************)
MaxProbes == 2          \* calls of filterIsValid in flight together

\* the values the user types into a filter row
FilterValues == {"http*", "("}

\* declarativeNetRequest.isRegexSupported: an unbalanced group is no regex
isRegexSupported(regex) == regex # "("

\* settings.ts 824-839: the callback of updateFilter; closure is the pagesData
\* of the render that called updateFilter, pd the graph the callback finds
updateFilterCallback(pd, closure, pageId, filter, result) ==
    LET newPages == [i \in DOMAIN closure.pages |->
                       IF closure.pages[i].id = pageId
                       THEN [closure.pages[i] EXCEPT !.filters =
                               [j \in DOMAIN closure.pages[i].filters |->
                                  IF closure.pages[i].filters[j].id = filter.id
                                  THEN HeaderFilter(filter.id, filter.enabled, result,
                                                    filter.type, filter.value)
                                  ELSE closure.pages[i].filters[j]]]
                       ELSE closure.pages[i]]
    IN PagesData(newPages, pd.selectedPage)

\* App.tsx 83-85, settings.ts 820-823, 76-79: a filter row of the current page
\* is edited; updateFilter starts the probe and returns
UpdateFilter ==
    /\ Cardinality(probes) < MaxProbes
    /\ \E j \in DOMAIN currentPage(pagesData).filters, value \in FilterValues :
         LET f == currentPage(pagesData).filters[j]
         IN probes' = probes \cup
                        {[pageId |-> currentPage(pagesData).id,
                          filter |-> [id |-> f.id, enabled |-> f.enabled, type |-> f.type,
                                      value |-> value],
                          pagesData |-> pagesData]}
    /\ probes' # probes
    /\ UNCHANGED <<storage, dynamicRules, runVars, graphVars, hookVars, now, failures, mounts>>

\* settings.ts 80-82, 824-839: a probe resolves and its callback runs
FilterIsValid ==
    \E p \in probes :
        /\ probes' = probes \ {p}
        /\ pagesData' = updateFilterCallback(pagesData, p.pagesData, p.pageId, p.filter,
                                             isRegexSupported(p.filter.value))
        /\ lastOp' = "updateFilter"
        /\ effects' = effects \cup {"save"}
        /\ UNCHANGED <<storage, dynamicRules, runVars, hookVars, now, failures, mounts>>

NextProbe ==
    \/ AddFilter
    \/ AddHeader
    \/ UpdateFilter
    \/ FilterIsValid
    \/ RunEffects

SpecProbe == InitPages /\ [][NextProbe]_vars

(***************************************************************************)
(* SpecWrite: the write helpers of storage.ts, saveToStorage (10-39) and   *)
(* saveMultipleToStorage (117-137), applied to the two tiers for any key,  *)
(* tier and outcome of the browser's set calls.                            *)
(***************************************************************************)
MaxKeys == 2            \* keys of one call of saveMultipleToStorage

\* the key-value pairs written: for two page shards a small page and one that
\* exceeds the sync quota, a meta record and a scalar
WriteKeys == {"page_0", "page_1", "page_0 (big)", "page_1 (big)", "meta", "selectedPage"}

writeItem(key) ==
    LET small == Page(0, "P", TRUE, FALSE, <<>>, <<>>)
        big == Page(0, "P", TRUE, FALSE, <<>>,
                    <<HeaderSetting("0-1", "X-A", BigValue, TRUE, "request")>>)
    IN CASE key = "page_0" -> pageItem(0, small)
         [] key = "page_1" -> pageItem(1, small)
         [] key = "page_0 (big)" -> pageItem(0, big)
         [] key = "page_1 (big)" -> pageItem(1, big)
         [] key = "meta" -> metaItem(SettingsV3Meta(0, 1))
         [] OTHER -> scalarItem("selectedPage")

writeItems(keys) == [k \in DOMAIN keys |-> writeItem(keys[k])]

\* browser.storage[tier].set(data) for an object of several keys, in key order
RECURSIVE setItems(_, _)
setItems(tier, items) ==
    IF items = <<>> THEN tier ELSE setItems(setItem(tier, Head(items)), Tail(items))

\* storage.ts 117-137; the browser rejects a set on the sync tier when an item
\* exceeds its quota per item
saveMultipleToStorage(st, items, storageType, ok) ==
    LET fits == \A k \in DOMAIN items : getDataSizeInBytes(items[k]) <= STORAGE_LIMIT(storageType)
    IN IF fits /\ ok[storageType]
       THEN [storage |-> [st EXCEPT ![storageType] = setItems(@, items)], resolved |-> TRUE]
       ELSE IF storageType = "sync" /\ ok["local"]
       THEN [storage |-> [st EXCEPT !.local = setItems(@, items)], resolved |-> TRUE]
       ELSE [storage |-> st, resolved |-> FALSE]

\* a call of saveToStorage
SaveToStorage ==
    /\ \E key \in WriteKeys, storageType \in Tiers, ok \in Oks :
         storage' = saveToStorage(storage, writeItem(key), storageType, ok).storage
    /\ UNCHANGED <<dynamicRules, runVars, storeVars>>

\* a call of saveMultipleToStorage
SaveMultipleToStorage ==
    /\ \E keys \in SeqsUpTo(WriteKeys, MaxKeys), storageType \in Tiers, ok \in Oks :
         storage' = saveMultipleToStorage(storage, writeItems(keys), storageType, ok).storage
    /\ UNCHANGED <<dynamicRules, runVars, storeVars>>

NextWrite ==
    \/ SaveToStorage
    \/ SaveMultipleToStorage

SpecWrite == InitPages /\ [][NextWrite]_vars

(***************************************************************************)
(* SpecStore: the store of one popup after another over the two tiers:     *)
(* retrieveSettings, edits and their saves, syncToRemote.                  *)
(***************************************************************************)
\* settings.ts 750-764
updateHeader(pd, pageId, header) ==
    PagesData([i \in DOMAIN pd.pages |->
                 IF pd.pages[i].id = pageId
                 THEN [pd.pages[i] EXCEPT !.headers =
                         [j \in DOMAIN pd.pages[i].headers |->
                            IF pd.pages[i].headers[j].id = header.id THEN header
                            ELSE pd.pages[i].headers[j]]]
                 ELSE pd.pages[i]],
              pd.selectedPage)

\* the header values the user types
EditValues == {BigValue, HugeValue}

\* the user acts on what the popup shows when it is at rest: the settings
\* are loaded, the effects of the last render have run and no call of the
\* store is in flight
userCanEdit ==
    /\ hasInitialized
    /\ effects = {}
    /\ \A t \in Tasks : task[t].pc \in {"idle", "done"}

\* App.tsx 70-72, 229-241: a header row of the current page gets a new value
UpdateHeader ==
    /\ userCanEdit
    /\ \E j \in DOMAIN currentPage(pagesData).headers, value \in EditValues :
         setPagesData(updateHeader(pagesData, currentPage(pagesData).id,
                                   [currentPage(pagesData).headers[j] EXCEPT !.headerValue = value]),
                      "updateHeader")

\* App.tsx 91-113 once the settings are shown
AddStoredPage ==
    /\ userCanEdit
    /\ Len(pagesData.pages) < MaxStoredPages
    /\ \E page \in newPageInputs(pagesData) :
         setPagesData(addPage(pagesData, page), "addPage")

\* App.tsx: the remove button of the current page
RemoveCurrentPage ==
    /\ userCanEdit
    /\ setPagesData(removePage(pagesData, currentPage(pagesData).id, TRUE), "removePage")

\* what the tiers hold when the popup is first opened: nothing, a sharded
\* graph of MaxStoredPages + 1 pages in the local tier, a sharded graph in the
\* sync tier only, a legacy record in the sync tier
blankPages(n) == [i \in 1..n |-> Page(i - 1, "Old Page", i = n, FALSE, <<>>, <<>>)]

InitialTiers ==
    { [local |-> EmptyTier, sync |-> EmptyTier],
      [local |-> ShardedTier(PagesData(blankPages(MaxStoredPages + 1), MaxStoredPages)),
       sync |-> EmptyTier],
      [local |-> EmptyTier, sync |-> ShardedTier(PagesData(blankPages(1), 0))],
      [local |-> EmptyTier, sync |-> LegacyTier(PagesData(blankPages(1), 0))] }

InitStore ==
    /\ storage \in InitialTiers
    /\ RunsInit
    /\ StoreInit

\* the steps of save for the call of task t
Save(t) ==
    \/ SavePages(t)
    \/ SaveMeta(t)
    \/ SaveModified(t)
    \/ ClearExtraGet(t)
    \/ ClearExtraRemove(t)
    \/ SaveFinish(t)
    \/ SaveCatch(t)

NextStore ==
    \/ Reopen
    \/ RunEffects
    \/ LoadDarkMode
    \/ LoadMeta
    \/ LoadWhichTier
    \/ LoadPages
    \/ LoadSavedLocal
    \/ LoadV2
    \/ LoadMigrated
    \/ UpdateHeader
    \/ AddStoredPage
    \/ RemoveCurrentPage
    \/ EditTimer
    \/ SyncMeta
    \/ SyncPages
    \/ SyncSaved
    \/ SaveLastSync("load")
    \/ \E t \in Tasks : Save(t)

SpecStore == InitStore /\ [][NextStore]_vars

(***************************************************************************)
(* SpecSync: one popup that stays open while the clock runs: edits of      *)
(* header values, their saves, and syncToRemote at each interval.          *)
(***************************************************************************)
NextSync ==
    \/ Tick
    \/ RunEffects
    \/ LoadDarkMode
    \/ LoadMeta
    \/ LoadWhichTier
    \/ LoadPages
    \/ LoadSavedLocal
    \/ LoadV2
    \/ LoadMigrated
    \/ UpdateHeader
    \/ EditTimer
    \/ SyncInterval
    \/ SyncMeta
    \/ SyncPages
    \/ SyncSaved
    \/ SaveLastSync("load")
    \/ \E t \in Tasks : Save(t)

SpecSync == InitStore /\ [][NextSync]_vars

\* a save is in flight for at most one of an edit and syncToRemote, and only
\* while isSavingRef is set
SavesExcludeEachOther ==
    /\ ~(task["edit"].pc # "idle" /\ task["sync"].pc # "idle")
    /\ (task["edit"].pc # "idle" \/ task["sync"].pc # "idle") => isSavingRef

(***************************************************************************)
(* SpecClear: one popup in which the user edits pages and resets all       *)
(* settings (clear, settings.ts 538-546), also while a call is in flight.  *)
(***************************************************************************)
\* storage.ts 97: the user chooses Reset All Settings (pageOptionsDropdown
\* 109-114); browser.storage.local.clear() takes effect, or is rejected and
\* clear ends there
Clear ==
    /\ hasInitialized
    /\ effects = {}
    /\ task["clear"].pc = "idle"
    /\ \E ok \in BOOLEAN :
         /\ ok \/ failures < MaxFailures
         /\ failures' = IF ok THEN failures ELSE failures + 1
         /\ storage' = IF ok THEN [storage EXCEPT !.local = EmptyTier] ELSE storage
         /\ task' = IF ok THEN [task EXCEPT !["clear"].pc = "sync"] ELSE task
    /\ UNCHANGED <<dynamicRules, runVars, graphVars, hasInitialized, isSavingRef, lastError,
                   prevPagesDataRef, alert, saved, now, mounts, probes>>

\* storage.ts 101, settings.ts 542-545: browser.storage.sync.clear() takes
\* effect and clear shows the default graph, or is rejected and clear ends
ClearSync ==
    /\ task["clear"].pc = "sync"
    /\ \E ok \in BOOLEAN :
         LET pd == PagesData(<<defaultPage>>, defaultPage.id)
         IN /\ ok \/ failures < MaxFailures
            /\ failures' = IF ok THEN failures ELSE failures + 1
            /\ storage' = IF ok THEN [storage EXCEPT !.sync = EmptyTier] ELSE storage
            /\ pagesData' = IF ok THEN pd ELSE pagesData
            /\ lastOp' = IF ok THEN "clear" ELSE lastOp
            /\ effects' = IF ok THEN effectsAfter(pd) ELSE effects
    /\ task' = [task EXCEPT !["clear"].pc = "idle"]
    /\ UNCHANGED <<dynamicRules, runVars, hasInitialized, isSavingRef, lastError,
                   prevPagesDataRef, alert, saved, now, mounts, probes>>

NextClear ==
    \/ RunEffects
    \/ LoadDarkMode
    \/ LoadMeta
    \/ LoadWhichTier
    \/ LoadPages
    \/ LoadSavedLocal
    \/ LoadV2
    \/ LoadMigrated
    \/ AddStoredPage
    \/ RemoveCurrentPage
    \/ Clear
    \/ ClearSync
    \/ EditTimer
    \/ SyncMeta
    \/ SyncPages
    \/ SyncSaved
    \/ SaveLastSync("load")
    \/ \E t \in Tasks : Save(t)

SpecClear == InitStore /\ [][NextClear]_vars

(***************************************************************************)
(* SpecLive: one popup in which the user adds pages at any moment after    *)
(* the settings are shown, also while a save or syncToRemote is in flight; *)
(* the calls and effects of the store always run on.                       *)
(***************************************************************************)
\* App.tsx 91-113: the add-page button once the effects of the last render
\* have run, whatever call of the store is in flight
AddPageInFlight ==
    /\ hasInitialized
    /\ effects = {}
    /\ Len(pagesData.pages) < MaxStoredPages
    /\ \E page \in newPageInputs(pagesData) :
         setPagesData(addPage(pagesData, page), "addPage")

\* what the tiers hold when the popup opens: as in InitialTiers, or a sync
\* tier that holds a page more than the local tier
LiveTiers ==
    InitialTiers
    \cup { [local |-> ShardedTier(PagesData(blankPages(1), 0)),
            sync |-> ShardedTier(PagesData(blankPages(MaxStoredPages), MaxStoredPages - 1))] }

InitLive ==
    /\ storage \in LiveTiers
    /\ RunsInit
    /\ StoreInit

\* the steps that the browser and React take without the user
SystemLive ==
    \/ RunEffects
    \/ LoadDarkMode
    \/ LoadMeta
    \/ LoadWhichTier
    \/ LoadPages
    \/ LoadSavedLocal
    \/ LoadV2
    \/ LoadMigrated
    \/ EditTimer
    \/ SyncMeta
    \/ SyncPages
    \/ SyncSaved
    \/ SaveLastSync("load")
    \/ \E t \in Tasks : Save(t)

NextLive ==
    \/ AddPageInFlight
    \/ SystemLive

\* every promise settles, every timer fires and every due effect runs
SpecLive == InitLive /\ [][NextLive]_vars /\ WF_vars(SystemLive)

(***************************************************************************)
(* SpecRules: one run at a time over a stored graph, run after run.        *)
(***************************************************************************)
InitRules ==
    /\ storage \in {[local |-> t, sync |-> EmptyTier] : t \in StoredTiers}
    /\ RunsInit
    /\ StoreInit

NextRules ==
    \/ getAndApplyHeaderRules("r1")
    \/ getMeta("r1")
    \/ getDynamicRules("r1")
    \/ compileAndSubmit("r1")
    \/ updateDynamicRules("r1")

SpecRules == InitRules /\ [][NextRules]_vars

(***************************************************************************)
(* SpecListener: runs started by the storage.local.onChanged listener      *)
(* (background.ts 198-204) while page_0 is rewritten; two runs may be in   *)
(* flight together and interleave at their awaits.                         *)
(***************************************************************************)
\* the graphs that the UI store saves: one selected page holding no header or
\* one header that produces a rule
ListenerGraphs ==
    {g \in HeaderGraphs : /\ Len(g.pages) = 1
                          /\ g.pages[1].enabled
                          /\ ~g.pages[1].keepEnabled
                          /\ Len(g.pages[1].headers) <= 1
                          /\ \A k \in DOMAIN g.pages[1].headers :
                                headerIsEmitted(g.pages[1].headers[k])}

InitListener ==
    /\ storage \in {[local |-> ShardedTier(g), sync |-> EmptyTier] : g \in ListenerGraphs}
    /\ RunsInit
    /\ StoreInit

\* background.ts 198-204: a write changes the shard page_0 of the local tier
\* and the listener starts a run
onChanged(r) ==
    /\ \E g \in ListenerGraphs :
         /\ storage.local.pages[0] # g.pages[1]
         /\ storage' = [storage EXCEPT !.local.pages[0] = g.pages[1]]
    /\ runStarts(r)
    /\ UNCHANGED <<dynamicRules, storeVars>>

NextListener ==
    \/ \E r \in Runs : onChanged(r)
    \/ \E r \in Runs : getAndApplyHeaderRules(r)
    \/ \E r \in Runs : getMeta(r)
    \/ \E r \in Runs : getDynamicRules(r)
    \/ \E r \in Runs : compileAndSubmit(r)
    \/ \E r \in Runs : updateDynamicRules(r)

SpecListener == InitListener /\ [][NextListener]_vars

(***************************************************************************)
(* Claims about the rule compiler, checked under SpecRules.                *)
(***************************************************************************)
\* the runs whose batch has been handed to updateDynamicRules
Submitted(r) == pc[r] \in {"update", "applied", "rejected"}

\* the single header entry a rule carries
RuleEntry(rule) == Head(rule.requestHeaders \o rule.responseHeaders)

\* every header of every page the local tier holds, as shards or in the v2 blob
StoredPages ==
    Range(storage.local.pages)
    \cup UNION {Range(storage.local.v2[n].pages) : n \in DOMAIN storage.local.v2}

StoredHeaders == UNION {Range(page.headers) : page \in StoredPages}

\* C4: every rule of a submitted batch carries a non-empty header name and is
\* the rule of a stored header that is enabled and named: no rule stems from a
\* header whose headerName is empty or whose headerEnabled is false.
C4_NoRuleForDisabledOrUnnamedHeader ==
    \A r \in Runs : Submitted(r) =>
        \A k \in DOMAIN headers[r] :
            /\ RuleEntry(headers[r][k]).header # ""
            /\ \E h \in StoredHeaders :
                 /\ h.headerEnabled
                 /\ h.headerName # ""
                 /\ h.headerName = RuleEntry(headers[r][k]).header
                 /\ h.headerValue = RuleEntry(headers[r][k]).value

\* C4 witness: a batch with a rule, compiled from an active page that also
\* holds a disabled header or a header without a name
C4_Witness ==
    /\ Submitted("r1")
    /\ headers["r1"] # <<>>
    /\ \E i \in DOMAIN pages["r1"] :
         /\ pageIsActive(pages["r1"][i])
         /\ \E h \in Range(pages["r1"][i].headers) :
              ~h.headerEnabled \/ h.headerName = ""

\* C5 as claimed: the ids of a submitted batch are pairwise distinct and none
\* is the id of a rule that was installed when the run started.
C5_BatchIdsDistinctAndFresh ==
    \A r \in Runs : Submitted(r) =>
        /\ \A i, j \in DOMAIN headers[r] :
             headers[r][i].id = headers[r][j].id => i = j
        /\ \A k \in DOMAIN headers[r] :
             headers[r][k].id \notin {rule.id : rule \in rulesAtStart[r]}

\* the strings s[1], ..., s[n] joined with sep
RECURSIVE JoinWith(_, _)
JoinWith(s, sep) ==
    IF s = <<>> THEN ""
    ELSE IF Len(s) = 1 THEN s[1]
    ELSE s[1] \o sep \o JoinWith(Tail(s), sep)

FilterCounts(f) == f.enabled /\ f.valid

\* what each enabled and valid filter contributes, in list order
Contributions(filters) ==
    [k \in 1..Len(SelectSeq(filters, FilterCounts)) |->
        LET f == SelectSeq(filters, FilterCounts)[k]
        IN IF f.type = "exclude" THEN "~" \o f.value ELSE f.value]

\* s without the empty strings it starts with
RECURSIVE DropLeadingEmpty(_)
DropLeadingEmpty(s) ==
    IF s = <<>> THEN <<>>
    ELSE IF Head(s) = "" THEN DropLeadingEmpty(Tail(s))
    ELSE s

\* C6 as claimed: the regexFilter of every rule is the contributions of its
\* page's enabled and valid filters joined with "|", and "|http*" when the page
\* has no enabled and valid filter.
C6_RegexFilterIsJoin ==
    \A r \in Runs : Submitted(r) =>
        \A k \in DOMAIN headers[r] :
            LET c == Contributions(emitted(pages[r])[k].page.filters)
            IN headers[r][k].regexFilter = IF c = <<>> THEN "|http*" ELSE JoinWith(c, "|")

\* C6 amended: the regexFilter of every rule is the contributions of its page's
\* enabled and valid filters joined with "|" once the empty contributions that
\* precede the first non-empty one are dropped, and "|http*" when that string
\* is empty.
C6_RegexFilterIsJoinAfterLeadingEmpty ==
    \A r \in Runs : Submitted(r) =>
        \A k \in DOMAIN headers[r] :
            LET c == DropLeadingEmpty(Contributions(emitted(pages[r])[k].page.filters))
                joined == JoinWith(c, "|")
            IN headers[r][k].regexFilter = IF joined = "" THEN "|http*" ELSE joined

\* C6 witness: a rule of a page whose enabled and valid filters are an include
\* with an empty value followed by an exclude, next to a filter that is not valid
C6_Witness ==
    /\ Submitted("r1")
    /\ \E k \in DOMAIN headers["r1"] :
         LET fs == emitted(pages["r1"])[k].page.filters
         IN /\ Len(fs) = 2
            /\ fs[1].enabled /\ fs[1].valid /\ fs[1].type = "include" /\ fs[1].value = ""
            /\ fs[2].enabled /\ fs[2].valid /\ fs[2].type = "exclude" /\ fs[2].value = "a"
            /\ headers["r1"][k].regexFilter = "~a"

\* C9: once the batch of a run has been applied, the engine holds exactly the
\* rules compiled in that run and none of the rules installed before it.
C9_AppliedRunReplacesAllRules ==
    \A r \in Runs : pc[r] = "applied" =>
        /\ dynamicRules = Range(headers[r])
        /\ dynamicRules \cap rulesAtStart[r] = {}

\* C9 witness: a run has replaced the rules of an earlier run by its own
C9_Witness ==
    /\ pc["r1"] = "applied"
    /\ rulesAtStart["r1"] # {}
    /\ headers["r1"] # <<>>

\* C10 as claimed: when a step of a run fails, the engine holds the rules it
\* held when the run started and the failure is caught inside the function.
C10_FailureKeepsRulesAndIsCaught ==
    \A r \in Runs : pc[r] \in {"caught", "rejected"} =>
        /\ dynamicRules = rulesAtStart[r]
        /\ ~unhandled[r]

(***************************************************************************)
(* Claims about the page operations, checked under SpecPages.              *)
(***************************************************************************)
\* C2: after any sequence of addPage, removePage and changePageIndex calls the
\* page at position i of the in-memory graph has id i (ids are 0..N-1 in order).
C2_PageIdsAreIndexes ==
    \A i \in DOMAIN pagesData.pages : pagesData.pages[i].id = i - 1

\* C2 witness: the first page of a larger graph was removed and the pages after
\* it were moved down
C2_Witness ==
    /\ lastOp = "removePage"
    /\ Len(pagesData.pages) >= 2
    /\ \A i \in DOMAIN pagesData.pages : pagesData.pages[i].name # "Default"

\* C3 as claimed: after addPage, removePage (autoSelectPage true or false) and
\* changeSelectedPage exactly one page of the in-memory graph has enabled = true.
C3_ExactlyOneEnabledAfterSelection ==
    lastOp \in {"addPage", "removePage", "changeSelectedPage"} =>
        Cardinality({i \in DOMAIN pagesData.pages : pagesData.pages[i].enabled}) = 1

(***************************************************************************)
(* Claims about the persistence of the store, checked under SpecStore and  *)
(* SpecSync.                                                               *)
(***************************************************************************)
\* the list positions of the pages of a graph that exceed a tier's quota
TooLargeFor(settings, storageType) ==
    {i \in DOMAIN settings.pages :
       getDataSizeInBytes(pageItem(i - 1, settings.pages[i])) > STORAGE_LIMIT(storageType)}

C7_SyncOfOversizedPageLeavesLastErrorNone ==
    \A i \in TooLargeFor(task["sync"].save.settings, "sync") :
       ( /\ task["sync"].pc = "saving"
         /\ task["sync"].save.pc \in {"done", "failed"}
         /\ failures = 0 )
       => /\ pageKey(storage.sync, i - 1) # <<task["sync"].save.settings.pages[i]>>
          /\ lastError.type = "None"

\* C8: when a save to one tier has ended for a graph with exactly one page
\* over that tier's quota, no storage call having been rejected, that page's
\* shard is not written, and the tier holds every other page of the graph
\* and its meta record.
C8_OversizedPageIsSkippedAlone ==
    \A t \in {"edit", "sync"} :
       LET s == task[t].save
           tooLarge == TooLargeFor(s.settings, s.storageType)
       IN ( /\ s.pc \in {"done", "failed"}
            /\ task[t].pc \in {"saving", "idle"}
            /\ s.storageType \in Tiers
            /\ failures = 0
            /\ Cardinality(tooLarge) = 1 )
          => /\ \A i \in tooLarge :
                  pageKey(storage[s.storageType], i - 1) # <<s.settings.pages[i]>>
             /\ \A i \in DOMAIN s.settings.pages \ tooLarge :
                  pageKey(storage[s.storageType], i - 1) = <<s.settings.pages[i]>>
             /\ metaKey(storage[s.storageType]) = <<metadataOf(s.settings)>>

(***************************************************************************)
(* More claims about the rule compiler, checked under SpecRules.           *)
(***************************************************************************)
\* the positions <<page, header>> in a list of pages of the enabled, named
\* headers of the pages that are selected or pinned
WantedHeaders(ps) ==
    UNION {{<<i, j>> : j \in {j \in DOMAIN ps[i].headers :
                                /\ ps[i].headers[j].headerEnabled
                                /\ ps[i].headers[j].headerName # ""}} :
           i \in {i \in DOMAIN ps : ps[i].enabled \/ ps[i].keepEnabled}}

\* the place of a position among the wanted ones, pages first
RankIn(wanted, at) ==
    Cardinality({q \in wanted : q[1] < at[1] \/ (q[1] = at[1] /\ q[2] <= at[2])})

\* C11: the batch a run submits holds exactly one rule for each enabled,
\* named header of each page that is enabled or pinned (keepEnabled), in page
\* and header order, and so none for a header of a page that is neither.
C11_OneRulePerHeaderOfActivePages ==
    \A r \in Runs :
       Submitted(r) =>
          LET wanted == WantedHeaders(pages[r])
          IN /\ Len(headers[r]) = Cardinality(wanted)
             /\ \A at \in wanted :
                  LET rule == headers[r][RankIn(wanted, at)]
                      header == pages[r][at[1]].headers[at[2]]
                  IN /\ RuleEntry(rule).header = header.headerName
                     /\ RuleEntry(rule).value = header.headerValue

\* C11: a run has submitted the one rule of a pinned page that is not
\* selected, and none for the enabled, named header of a page that is neither
\* selected nor pinned
C11_Witness ==
    /\ Submitted("r1")
    /\ Len(headers["r1"]) = 1
    /\ \E i, k \in DOMAIN pages["r1"] :
         /\ ~pages["r1"][i].enabled /\ pages["r1"][i].keepEnabled
         /\ <<i, 1>> \in WantedHeaders(pages["r1"])
         /\ ~pages["r1"][k].enabled /\ ~pages["r1"][k].keepEnabled
         /\ \E j \in DOMAIN pages["r1"][k].headers :
              /\ pages["r1"][k].headers[j].headerEnabled
              /\ pages["r1"][k].headers[j].headerName # ""

(***************************************************************************)
(* Claims about reset, checked under SpecClear.                            *)
(***************************************************************************)
\* no call of the store is in flight and no effect is due
Quiescent ==
    /\ effects = {}
    /\ \A t \in Tasks : task[t].pc \in {"idle", "done"}

\* the tier holds no meta record and no page shard but those of graph g
HoldsNothingBut(tier, g) ==
    /\ tier.meta \in {<<>>, <<metadataOf(g)>>}
    /\ \A i \in DOMAIN tier.pages : i < Len(g.pages) /\ tier.pages[i] = g.pages[i + 1]

\* C12: when clear has shown the default graph, no edit has followed, no
\* storage call has been rejected and the store is quiescent, the in-memory
\* graph is the default page with selectedPage 0 and neither tier holds a
\* meta record or page shard other than those of that default graph.
C12_ResetLeavesNothingOfTheOldGraph ==
    (lastOp = "clear" /\ Quiescent /\ failures = 0)
    => /\ pagesData = PagesData(<<defaultPage>>, 0)
       /\ HoldsNothingBut(storage.local, pagesData)
       /\ HoldsNothingBut(storage.sync, pagesData)


(***************************************************************************)
(* Claims about retrieveSettings and save, checked under SpecStore.        *)
(***************************************************************************)
\* the load of this popup found no meta and migrated the legacy record
Migrated ==
    /\ lastOp = "retrieveSettings"
    /\ task["load"].pc = "done"
    /\ task["load"].meta = <<>>
    /\ task["load"].save.storageType = "both"

\* C13: when retrieveSettings found no settings_v3_meta in either tier and
\* a settings_v2 record in the sync tier, and has run to its end with no
\* storage call rejected, the in-memory graph is the legacy graph, both
\* tiers hold its meta and exactly the shards page_0..page_{N-1} of its N
\* pages, and the sync tier holds no settings_v2.
C13_LegacyGraphIsMigrated ==
    (Migrated /\ failures = 0)
    => LET g == task["load"].save.settings
       IN /\ pagesData = g
          /\ \A t \in Tiers :
               /\ storage[t].meta = <<metadataOf(g)>>
               /\ storage[t].pages = PageShards(g.pages)
          /\ storage.sync.v2 = <<>>

\* C13: the load has just migrated a legacy graph with a page; nothing has
\* been saved by an edit or by syncToRemote yet
C13_Witness ==
    /\ Migrated
    /\ failures = 0
    /\ mounts = 1
    /\ Len(pagesData.pages) >= 1
    /\ prevPagesDataRef = <<>>
    /\ task["sync"].pc = "idle"
    /\ storage.local.meta # <<>>
    /\ storage.sync.v2 = <<>>


\* the tiers that save(settings, storageType) writes
SaveTiers(storageType) == IF storageType = "both" THEN Tiers ELSE {storageType}

\* C14: when a save of a graph of N pages runs to its end (237) and no
\* storage call has been rejected, each tier it wrote holds a shard page_i
\* exactly for i in 0..N-1, so that no shard of a larger page set is left,
\* and its meta has pageCount N.
C14_SaveLeavesExactlyTheShards ==
    [][\A t \in Tasks :
         (task[t].save.pc = "finish" /\ task'[t].save.pc = "done" /\ failures' = 0)
         => LET s == task'[t].save
                N == Len(s.settings.pages)
            IN \A tier \in SaveTiers(s.storageType) :
                 /\ DOMAIN storage'[tier].pages = 0..(N - 1)
                 /\ storage'[tier].meta # <<>>
                 /\ storage'[tier].meta[1].pageCount = N]_vars

\* C14: the first save of an edit has ended: the local tier held three pages,
\* the user removed one, and the tier holds page_0 and page_1 only
C14_Witness ==
    /\ mounts = 1
    /\ failures = 0
    /\ lastOp = "removePage"
    /\ task["edit"].save.pc = "done"
    /\ task["edit"].save.settings = pagesData
    /\ Len(pagesData.pages) = MaxStoredPages
    /\ \A i \in DOMAIN pagesData.pages : pagesData.pages[i].name = "Old Page"
    /\ DOMAIN storage.local.pages = 0..(MaxStoredPages - 1)
    /\ storage.local.meta = <<metadataOf(pagesData)>>


(***************************************************************************)
(* Claims about saveWithSync and the save effect, checked under SpecSync.  *)
(***************************************************************************)
\* the save effect runs for a graph that an edit of the user has made and
\* that no save has been attempted for
EditedGraphIsDue ==
    /\ "save" \in effects
    /\ "save" \notin effects'
    /\ hasInitialized
    /\ lastOp = "updateHeader"
    /\ prevPagesDataRef # <<pagesData>>

\* C15: when the save effect runs for an edited graph while the last save
\* failure is less than SaveErrorCooldown old, no save is started, so that
\* nothing is written for the edit, and the alert "Changes not saved due to
\* recent error" is raised.
C15_EditInCooldownIsRefusedWithAlert ==
    [][(EditedGraphIsDue /\ recentSaveError)
       => /\ task' = task
          /\ storage'.local.pages = storage.local.pages
          /\ storage'.local.meta = storage.local.meta
          /\ alert' = "Changes not saved due to recent error"]_vars


(***************************************************************************)
(* Claims about importSettings, checked under SpecImport.                  *)
(***************************************************************************)
\* p is the page q but for its id and for the headerType of its headers
SamePage(p, q) ==
    /\ [p EXCEPT !.id = 0, !.headers = <<>>] = [q EXCEPT !.id = 0, !.headers = <<>>]
    /\ Len(p.headers) = Len(q.headers)
    /\ \A j \in DOMAIN p.headers :
         [p.headers[j] EXCEPT !.headerType = Unset] = [q.headers[j] EXCEPT !.headerType = Unset]

\* C16: a step that imports a file into a graph of n pages yields, for a
\* file of some k pages, a graph of n + k pages whose ids are 0..n+k-1 in
\* list order: the n pages of the graph in their order, then the k pages of
\* the file in file order.
C16_ImportAppendsAndRenumbers ==
    [][(lastOp' = "importSettings" /\ (lastOp # "importSettings" \/ pagesData' # pagesData))
       => \E file \in ImportFiles :
            LET n == Len(pagesData.pages)
                k == Len(file)
                new == pagesData'.pages
            IN /\ Len(new) = n + k
               /\ \A i \in 1..(n + k) : new[i].id = i - 1
               /\ \A i \in 1..n : SamePage(new[i], pagesData.pages[i])
               /\ \A j \in 1..k : SamePage(new[n + j], file[j])]_vars

\* C16: two pages have been imported into the graph of the default page
C16_Witness ==
    /\ lastOp = "importSettings"
    /\ [i \in DOMAIN pagesData.pages |-> pagesData.pages[i].id] = <<0, 1, 2>>
    /\ [i \in DOMAIN pagesData.pages |-> pagesData.pages[i].name]
         = <<"Default", "Imported B", "Imported A">>
    /\ pagesData.pages[3].headers[1].headerType = "request"


\* C17: a removePage step on a graph of one page, with either value of
\* autoSelectPage, yields the graph of the default page alone (id 0, name
\* "Default", enabled) with selectedPage 0.
C17_RemovingTheOnlyPageYieldsDefault ==
    [][(Len(pagesData.pages) = 1 /\ lastOp' = "removePage" /\ "save" \in effects')
       => pagesData' = PagesData(<<defaultPage>>, 0)]_vars


\* the step of retrieveSettings that shows a graph read from the tiers
\* (settings.ts 466-476, 512-515)
LoadShows ==
    /\ task["load"].pc \in {"pages", "v2"}
    /\ task'["load"].pc \in {"saveLocal", "done"}

\* neither tier holds a meta or a legacy record
NothingStored == \A t \in Tiers : storage[t].meta = <<>> /\ storage[t].v2 = <<>>

\* the load has found a meta, and the tier it reads holds none of the shards
\* the meta names
NoShardOfTheMeta ==
    /\ task["load"].pc = "pages"
    /\ \A i \in 0..(task["load"].meta[1].pageCount - 1) :
         i \notin DOMAIN storage[task["load"].from].pages

\* C18: the step of retrieveSettings that shows the graph shows the default
\* page alone with selectedPage 0 when neither tier holds a meta or a legacy
\* record, when a meta was found but none of its shards exists, and when a
\* storage read of that step is rejected.
C18_LoadFallsBackToTheDefaultPage ==
    [][(LoadShows /\ (NothingStored \/ NoShardOfTheMeta \/ failures' > failures))
       => pagesData' = PagesData(<<defaultPage>>, 0)]_vars

\* C18, amended: the step of retrieveSettings that shows the graph shows the
\* default page alone with selectedPage 0 when neither tier holds a meta or
\* a legacy record and when a meta was found but none of its shards exists;
\* when reads of shards are rejected and more shards exist than reads were
\* rejected, it shows shards of the tier, at least those that are left,
\* with the selectedPage of the meta.
C18_LoadShowsTheDefaultPageOrTheShardsRead ==
    [][LoadShows
       => /\ (NothingStored \/ NoShardOfTheMeta)
               => pagesData' = PagesData(<<defaultPage>>, 0)
          /\ (task["load"].pc = "pages" /\ failures' > failures)
               => LET tier == storage[task["load"].from]
                      m == task["load"].meta[1]
                      named == {i \in 0..(m.pageCount - 1) : i \in DOMAIN tier.pages}
                      left == Cardinality(named) - (failures' - failures)
                  IN left > 0
                     => /\ pagesData'.selectedPage = m.selectedPage
                        /\ Len(pagesData'.pages) >= left
                        /\ \A k \in DOMAIN pagesData'.pages : \E i \in named :
                             pagesData'.pages[k] = withHeaderType(tier.pages[i])]_vars

\* C18: the load has ended with two of the three pages of the local tier,
\* the read of one shard having been rejected
C18_Witness ==
    /\ mounts = 1
    /\ lastOp = "retrieveSettings"
    /\ task["load"].pc = "done"
    /\ task["load"].from = "local"
    /\ failures = 1
    /\ DOMAIN storage.local.pages = 0..MaxStoredPages
    /\ Len(pagesData.pages) = MaxStoredPages
    /\ \A i \in DOMAIN pagesData.pages : pagesData.pages[i].name = "Old Page"


(***************************************************************************)
(* The header entry of a rule, checked under SpecRules.                    *)
(***************************************************************************)
\* the entry that sets a header
SetEntry(header) ==
    [header |-> header.headerName, operation |-> "set", value |-> header.headerValue]

\* C19: in a submitted batch the rule of a header whose headerType is
\* "request" or unset carries the header's one entry, with operation "set",
\* in requestHeaders and has no responseHeaders; the rule of a header whose
\* headerType is "response" carries it in responseHeaders and has no
\* requestHeaders.
C19_EntryGoesToTheListOfItsHeaderType ==
    \A r \in Runs :
       Submitted(r) =>
          LET wanted == WantedHeaders(pages[r])
          IN \A at \in wanted :
               LET rule == headers[r][RankIn(wanted, at)]
                   header == pages[r][at[1]].headers[at[2]]
               IN /\ header.headerType \in {"request", Unset}
                       => /\ rule.requestHeaders = <<SetEntry(header)>>
                          /\ rule.responseHeaders = <<>>
                  /\ header.headerType = "response"
                       => /\ rule.responseHeaders = <<SetEntry(header)>>
                          /\ rule.requestHeaders = <<>>

\* C19: a run has submitted a batch of two rules, one for a header without
\* headerType and one for a header with headerType "response"
C19_Witness ==
    /\ Submitted("r1")
    /\ Len(headers["r1"]) = 2
    /\ \A t \in {Unset, "response"} :
         \E at \in WantedHeaders(pages["r1"]) :
            pages["r1"][at[1]].headers[at[2]].headerType = t
    /\ \E k \in DOMAIN headers["r1"] : headers["r1"][k].responseHeaders # <<>>
    /\ \E k \in DOMAIN headers["r1"] : headers["r1"][k].requestHeaders # <<>>


(***************************************************************************)
(* Persistence of edits, checked under SpecLive.                           *)
(***************************************************************************)
\* the local tier holds the meta and exactly the shards of the in-memory graph
PersistedLocal ==
    /\ storage.local.meta = <<metadataOf(pagesData)>>
    /\ storage.local.pages = PageShards(pagesData.pages)

\* C20: when no storage call is rejected, from some moment on, which comes
\* after the last edit, the local tier's meta and shards are those of the
\* in-memory graph that the edits have made, also for an edit made while a
\* save or syncToRemote was in flight.
C20_EditsAreEventuallyPersisted ==
    <>[]((failures = 0 /\ lastOp = "addPage") => PersistedLocal)


\* C21: when the save effect runs for an edited graph more than
\* SaveErrorCooldown after the last save failure, a save of that graph to the
\* local tier is started.
C21_EditAfterCooldownIsSaved ==
    [][(/\ EditedGraphIsDue
        /\ lastError.type = "SaveError"
        /\ now - lastError.time > SaveErrorCooldown)
       => /\ task'["edit"].pc = "saving"
          /\ task'["edit"].save = saveCall(pagesData, "local")]_vars


(***************************************************************************)
(* Claims about the ids of headers and filters, checked under SpecFilters  *)
(* and SpecHeaders.                                                        *)
(***************************************************************************)
\* the ids of a list of headers or filters are pairwise distinct
DistinctIds(items) ==
    \A i, j \in DOMAIN items : i # j => items[i].id # items[j].id

\* C22: after any sequence of addFilter and removeFilter calls the ids of
\* the filters of every page are pairwise distinct.
C22_FilterIdsAreDistinct ==
    \A i \in DOMAIN pagesData.pages : DistinctIds(pagesData.pages[i].filters)

\* C23: after any sequence of addHeader, removeHeader and saveHeaders calls,
\* interleaved with the page operations that change the ids of pages, the
\* ids of the headers of every page are pairwise distinct.
C23_HeaderIdsAreDistinct ==
    \A i \in DOMAIN pagesData.pages : DistinctIds(pagesData.pages[i].headers)

\* C23: a page that has been moved to another index holds two headers, one
\* derived under its old id and one added under its new id, after a header
\* was removed
C23_Witness ==
    /\ lastOp = "addHeader"
    /\ \E i \in DOMAIN pagesData.pages :
         /\ Len(pagesData.pages[i].headers) = MaxItems
         /\ pagesData.pages[i].id = 1
         /\ pagesData.pages[i].headers[1].id = "0-1"
         /\ pagesData.pages[i].headers[2].id = "1-2"


\* C24 as claimed: in every state of the in-memory graph reached by addPage,
\* removePage, changeSelectedPage and changePageIndex, selectedPage is the id of
\* a page of the graph and a page has enabled = true exactly if its id is
\* selectedPage.
C24_SelectedPageIsTheOneEnabledPage ==
    /\ \E i \in DOMAIN pagesData.pages : pagesData.pages[i].id = pagesData.selectedPage
    /\ \A i \in DOMAIN pagesData.pages :
           pagesData.pages[i].enabled <=> (pagesData.pages[i].id = pagesData.selectedPage)


\* the call of task t has started and has not ended
inFlight(t) == task[t].pc # "idle"

\* C25: once the settings are initialized, a save started by saveWithSync and
\* a pass of syncToRemote are never in flight together, and neither of them
\* starts while isSavingRef is true.
C25_SaveAndSyncNeverOverlap ==
    /\ [](hasInitialized => ~(inFlight("edit") /\ inFlight("sync")))
    /\ [][\A t \in {"edit", "sync"} : (~inFlight(t) /\ inFlight(t)') => ~isSavingRef]_vars

\* an edit was made while syncToRemote was in flight and its save effect has
\* run without starting a save
C25_Witness ==
    /\ hasInitialized
    /\ inFlight("sync")
    /\ ~inFlight("edit")
    /\ lastOp = "addPage"
    /\ effects = {}
    /\ prevPagesDataRef # <<pagesData>>


\* the rule sets that one compilation of the graph in the local tier installs
compilationsOf(tier) ==
    LET ps == readPages(tier, tier.meta)
    IN {Range(compile(ps, ids)) : ids \in [1..Len(emitted(ps)) -> RuleIds]}

\* C26 as claimed: when every run of getAndApplyHeaderRules has completed and
\* its batch was applied, the installed rules are the rules of one compilation
\* of what the local tier holds; no rule of another compilation is left.
C26_RulesAreOneCompilationOfTheFinalStorage ==
    (\A r \in Runs : pc[r] = "applied") => dynamicRules \in compilationsOf(storage.local)


\* C27 as claimed: when the callback of a probe of updateFilter runs, the
\* headers of every page of the in-memory graph, those added since the call of
\* updateFilter included, are in the graph that the callback leaves.
C27_ProbeCallbackKeepsLaterMutations ==
    [][(probes' # probes /\ probes' \subseteq probes)
       => \A i \in DOMAIN pagesData.pages :
             /\ i \in DOMAIN pagesData'.pages
             /\ pagesData'.pages[i].headers = pagesData.pages[i].headers]_vars


\* C28 as claimed: when the save of the migration has failed, the load that
\* ends leaves the legacy record settings_v2 in the sync tier.
C28_FailedMigrationKeepsTheLegacyRecord ==
    [][(/\ task["load"].pc = "migrate"
        /\ task["load"].save.pc = "failed"
        /\ task'["load"].pc = "done")
       => storage'.sync.v2 # <<>>]_vars


\* C29 as claimed: whatever the tiers hold, a call of saveToStorage or of
\* saveMultipleToStorage with storageType 'sync' leaves the local tier as it
\* is, also when the browser rejects the write or the data exceeds the quota
\* of the sync tier.
C29_SyncWriteLeavesTheLocalTier ==
    \A ok \in Oks :
        /\ \A key \in WriteKeys :
             saveToStorage(storage, writeItem(key), "sync", ok).storage.local = storage.local
        /\ \A keys \in SeqsUpTo(WriteKeys, MaxKeys) :
             saveMultipleToStorage(storage, writeItems(keys), "sync", ok).storage.local
                 = storage.local


\* the load has found a meta, and the tier it reads lacks a shard that the
\* meta names
SomeShardOfTheMetaIsMissing ==
    /\ task["load"].pc = "pages"
    /\ \E i \in 0..(task["load"].meta[1].pageCount - 1) :
         i \notin DOMAIN storage[task["load"].from].pages

\* C30 as claimed: the step of retrieveSettings that shows the pages of a meta
\* of which a shard is missing shows a graph whose pages have the ids 0..N-1
\* in list order and whose selectedPage is the id of one of them.
C30_LoadWithAMissingShardShowsAWellFormedGraph ==
    [][(SomeShardOfTheMetaIsMissing /\ LoadShows)
       => /\ \A i \in DOMAIN pagesData'.pages : pagesData'.pages[i].id = i - 1
          /\ \E i \in DOMAIN pagesData'.pages :
               pagesData'.pages[i].id = pagesData'.selectedPage]_vars

=============================================================================
